---- MODULE Spec2Model ----
(***************************************************************************)
(* State-machine model of the G-code writer of libslic3r                  *)
(* (src/src/libslic3r/GCodeWriter.cpp).                                   *)
(*                                                                         *)
(* Numbers.  Lengths (X, Y, Z, lift amounts) are integers counted in      *)
(* half-EPSILON units, so EPSILON is 2 and amounts below EPSILON (1) and  *)
(* above it (3, 4) both exist; arithmetic on them is exact.  Speeds,      *)
(* accelerations and temperatures are plain integers.                     *)
(*                                                                         *)
(* Text.  A returned std::string is a sequence of lines; a line is a      *)
(* record [cmd, args, cmt, nl]: the mnemonic, the sequence of             *)
(* <<letter, value>> fragments, whether a ';' comment is part of the      *)
(* line, and whether the line ends with a newline.  The empty string is   *)
(* the empty sequence.                                                     *)
(*                                                                         *)
(* Specifications.  The methods are pure operators from a writer record    *)
(* (and arguments) to the writer after the call and the text returned.     *)
(* Each component of the writer has its own specification over them:       *)
(* Spec (position and lift), SpecTemp (temperatures), SpecTool (tool       *)
(* selection), SpecRetract (retraction), SpecAccel (kinematic limiter:     *)
(* acceleration), SpecJerk (kinematic limiter: jerk), SpecFan (fan speed),  *)
(* SpecFormat (number formatting of GCodeFormatter::emit_axis), SpecSpeed  *)
(* (feedrate) and SpecReconf (reconfiguration of the tool set).            *)
(***************************************************************************)
EXTENDS Integers, Sequences, FiniteSets, TLC

VARIABLES
    config,     \* GCodeWriter::config (and the other values fixed at set-up)
    writer,     \* the mutable members of the GCodeWriter object
    last,       \* the last call: its name and what the properties need of it
    since_lift  \* nominal Z before the latest lift call, while no Z travel followed

vars == <<config, writer, last, since_lift>>

----------------------------------------------------------------------------
(* Bounds of the model *)

\* Z coordinates requested by travel and extrude calls range over 0..MaxZ
MaxZ == 3

----------------------------------------------------------------------------
(* Program constants *)

\* libslic3r EPSILON (1e-4 mm) in half-EPSILON length units
EPSILON == 2

\* const bool GCodeWriter::full_gcode_comment = false
full_gcode_comment == FALSE

\* tan(slope_threshold) = tan(3 degrees) = 0.0524 as TanNum / TanDen
TanNum == 131
TanDen == 2500

\* the null Extruder pointer, and the unset m_curr_extruder_id
nullptr == 0
NoExtruder == -1

LiftTypes == {"NormalLift", "SlopeLift", "SpiralLift"}

----------------------------------------------------------------------------
(* Text *)

Line(cmd, args, cmt) == [cmd |-> cmd, args |-> args, cmt |-> cmt, nl |-> TRUE]

\* GCodeFormatter::emit_comment: the comment is written only when allowed
\* and not empty
EmitComment(allow_comments, has_comment) == allow_comments /\ has_comment

\* GCodeG1Formatter: "G1" + fragments + comment + "\n"
G1(args, has_comment) ==
    Line("G1", args, EmitComment(full_gcode_comment, has_comment))

\* the lines of a text that move the tool
IsMotion(l) == l.cmd \in {"G1", "G2", "G3"}

\* the lines of a text that are acceleration commands
IsAccelerationLine(l) == l.cmd \in {"M201", "M202", "M204", "SET_VELOCITY_LIMIT"}

Abs(a) == IF a < 0 THEN -a ELSE a

\* floor of the square root
ISqrt(n) == CHOOSE k \in 0..(n + 1) : k * k <= n /\ (k + 1) * (k + 1) > n

----------------------------------------------------------------------------
(* GCodeFormatter::emit_axis: the numeric formatter, character by character *)

\* the table pow_10 of emit_axis, indexed from 0
pow_10(digits) ==
    <<1, 10, 100, 1000, 10000, 100000, 1000000, 10000000, 100000000, 1000000000>>[digits + 1]

DigitChars == <<"0", "1", "2", "3", "4", "5", "6", "7", "8", "9">>

\* std::to_chars of a value that is not negative
RECURSIVE to_chars(_)
to_chars(n) ==
    IF n < 10 THEN << DigitChars[n + 1] >>
    ELSE to_chars(n \div 10) \o << DigitChars[(n % 10) + 1] >>

\* the product truncated toward zero instead of rounded
Round_Truncate(scaled) == IF scaled.neg THEN - scaled.whole ELSE scaled.whole

\* std::round of v * pow_10[digits], half away from zero; the product is
\* given as a sign, a whole part and a number of quarters
Round(scaled) ==
    LET magnitude == scaled.whole + (IF scaled.quarters >= 2 THEN 1 ELSE 0)
    IN  IF scaled.neg THEN - magnitude ELSE magnitude

\* a number below 10^digits is padded with zeros up to digits characters
PadZeros(number, digits) ==
    IF Len(number) < digits
    THEN [i \in 1..(digits - Len(number)) |-> "0"] \o number
    ELSE number

RECURSIVE TrimFrom(_, _, _, _)
TrimFrom(buf, ptr, i, digits) ==
    IF i >= digits \/ buf[ptr] # "0" THEN ptr
    ELSE TrimFrom(buf, ptr - 1, i + 1, digits)

\* emit_axis trimming no zero
TrimZeros_None(buf, digits) == Len(buf)

\* the trimming loop: ptr steps back over at most digits trailing zeros
TrimZeros(buf, digits) == TrimFrom(buf, Len(buf), 0, digits)

\* emit_axis(axis, v, digits) for v * pow_10[digits] = scaled: the
\* characters appended to the buffer
emit_axis(axis, scaled, digits) ==
    LET v_int == Round(scaled)
        sign == IF v_int < 0 THEN << "-" >> ELSE << >>
        number == PadZeros(to_chars(IF v_int < 0 THEN - v_int ELSE v_int), digits)
        n == Len(number)
        pointed == sign \o SubSeq(number, 1, n - digits) \o << "." >>
                        \o SubSeq(number, n - digits + 1, n)
        trimmed == TrimZeros(pointed, digits)
        ptr == IF pointed[trimmed] = "." THEN trimmed - 1 ELSE trimmed
        kept == SubSeq(pointed, 1, ptr)
        empty == IF ptr = 0 THEN TRUE ELSE pointed[ptr] = "-"
    IN  << " ", axis >> \o (IF empty THEN kept \o << "0" >> ELSE kept)

----------------------------------------------------------------------------
(* Tools *)

\* GCodeWriter::filament(): the Extruder the current physical extruder points
\* to, as a position in m_filament_extruders; nullptr before any selection
filament(w) ==
    IF w.m_curr_extruder_id = NoExtruder THEN nullptr
    ELSE w.m_curr_filament_extruder[w.m_curr_extruder_id]

\* the Extruder record behind filament()
Cur(w) == w.m_filament_extruders[filament(w)]

\* Slic3r::lower_bound_by_predicate over m_filament_extruders with the
\* predicate e.id() < filament_id: the first position whose id is not below
\* filament_id, Len + 1 (end()) when there is none
lower_bound_by_id(w, filament_id) ==
    LET n == Len(w.m_filament_extruders)
        hits == {i \in 1..n : w.m_filament_extruders[i].id >= filament_id}
    IN  IF hits = {} THEN n + 1
        ELSE CHOOSE i \in hits : \A j \in hits : i <= j

\* get_extruder_index(config, filament_id): the physical extruder of a filament
get_extruder_index(filament_id) == config.filament_map[filament_id]

\* the set of configured filament ids
ConfiguredIds(w) ==
    {w.m_filament_extruders[i].id : i \in 1..Len(w.m_filament_extruders)}

----------------------------------------------------------------------------
(* Kinematic limiter *)

\* the text of one acceleration command, by dialect
AccelerationText(acceleration) ==
    LET cmt == full_gcode_comment
    IN  CASE config.gcode_flavor = "gcfRepetier" ->
                << Line("M201", << <<"X", acceleration>>, <<"Y", acceleration>> >>, cmt),
                   Line("M202", << <<"X", acceleration>>, <<"Y", acceleration>> >>, cmt) >>
          [] config.gcode_flavor \in {"gcfRepRapFirmware", "gcfMarlinFirmware"} ->
                << Line("M204", << <<"P", acceleration>> >>, cmt) >>
          [] config.gcode_flavor = "gcfKlipper" /\ config.accel_to_decel_enable ->
                << Line("SET_VELOCITY_LIMIT",
                        << <<"ACCEL_TO_DECEL",
                             (acceleration * config.accel_to_decel_factor) \div 100>> >>, cmt),
                   Line("M204", << <<"S", acceleration>> >>, cmt) >>
          [] OTHER ->
                << Line("M204", << <<"S", acceleration>> >>, cmt) >>

\* set_acceleration_impl passing the request on unclamped
ClampAcceleration_None(w, acceleration) == acceleration

\* the clamp of set_acceleration_impl
ClampAcceleration(w, acceleration) ==
    IF w.m_max_acceleration > 0 /\ acceleration > w.m_max_acceleration
    THEN w.m_max_acceleration
    ELSE acceleration

set_acceleration_impl(w, acceleration) ==
    LET acc == ClampAcceleration(w, acceleration)
    IN  IF acc = 0 \/ acc = w.m_last_acceleration
        THEN [w |-> w, out |-> << >>]
        ELSE [w |-> [w EXCEPT !.m_last_acceleration = acc],
              out |-> AccelerationText(acc)]

\* jerks are lengths per second, in the unit of lengths (half an EPSILON):
\* what 1 mm/s is, and the 0.01 mm/s below which set_jerk_xy writes nothing
JerkPerMm == 10000 * EPSILON
JerkThreshold == 100 * EPSILON

\* is_approx(value, test_value) with the default precision EPSILON
is_approx(value, test_value) == Abs(value - test_value) < EPSILON

\* the text of one jerk command, by dialect
JerkText(jerk) ==
    IF config.gcode_flavor = "gcfKlipper"
    THEN << Line("SET_VELOCITY_LIMIT", << <<"SQUARE_CORNER_VELOCITY", jerk>> >>,
                 full_gcode_comment) >>
    ELSE << Line("M205", << <<"X", jerk>>, <<"Y", jerk>> >>, full_gcode_comment) >>

\* set_jerk_xy passing the jerk on unclamped
ClampJerk_None(w, jerk) == jerk

\* the clamp of set_jerk_xy; m_max_jerk is a whole number of mm/s
ClampJerk(w, jerk) ==
    IF w.m_max_jerk > 0 /\ jerk > w.m_max_jerk * JerkPerMm
    THEN w.m_max_jerk * JerkPerMm
    ELSE jerk

set_jerk_xy(w, jerk) ==
    LET j == ClampJerk(w, jerk)
    IN  IF j < JerkThreshold \/ is_approx(j, w.m_last_jerk)
        THEN [w |-> w, out |-> << >>]
        ELSE [w |-> [w EXCEPT !.m_last_jerk = j], out |-> JerkText(j)]

\* the setters of the values the limiter is asked for
set_acceleration(w, acceleration) == [w EXCEPT !.m_acceleration = acceleration]

set_travel_acceleration_values(w, accelerations) ==
    [w EXCEPT !.m_travel_accelerations = accelerations]

set_first_layer_travel_acceleration(w, travel_accelerations) ==
    [w EXCEPT !.m_first_layer_travel_accelerations = travel_accelerations]

set_first_layer(w, is_first_layer) == [w EXCEPT !.m_is_first_layer = is_first_layer]

set_extrude_acceleration(w) == set_acceleration_impl(w, w.m_acceleration)

\* set_travel_acceleration reading m_travel_accelerations on the first layer
\* as well
set_travel_acceleration_OneTable(w) ==
    IF w.m_travel_accelerations = << >> THEN [w |-> w, out |-> << >>]
    ELSE IF filament(w) = nullptr THEN [w |-> w, out |-> << >>]
    ELSE set_acceleration_impl(w, w.m_travel_accelerations[Cur(w).extruder_id + 1])

set_travel_acceleration(w) ==
    LET travel_accelerations ==
            IF w.m_is_first_layer THEN w.m_first_layer_travel_accelerations
            ELSE w.m_travel_accelerations
    IN  IF travel_accelerations = << >> THEN [w |-> w, out |-> << >>]
        ELSE IF filament(w) = nullptr THEN [w |-> w, out |-> << >>]
        ELSE set_acceleration_impl(w, travel_accelerations[Cur(w).extruder_id + 1])

----------------------------------------------------------------------------
(* Position and lift *)

\* travel_speed of the current filament's extruder, times 60
TravelF(w) == config.travel_speed[get_extruder_index(Cur(w).id)] * 60

\* the Z feedrate of _travel_to_z and _spiral_travel_to_z
ZSpeed(w, tool_change) ==
    LET idx == get_extruder_index(Cur(w).id)
        speed == IF config.travel_speed_z[idx] = 0 THEN config.travel_speed[idx]
                 ELSE config.travel_speed_z[idx]
    IN  IF tool_change /\ config.prime_tower_lift_speed > 0
        THEN config.prime_tower_lift_speed
        ELSE speed

_travel_to_z(w, z, has_comment, tool_change) ==
    LET w1 == [w EXCEPT !.m_pos.z = z]
        a  == set_travel_acceleration(w1)
    IN  [w |-> a.w,
         out |-> a.out \o << G1(<< <<"Z", z>>, <<"F", ZSpeed(w1, tool_change) * 60>> >>,
                                has_comment) >>]

_spiral_travel_to_z(w, z, ij_offset, tool_change) ==
    LET w1 == [w EXCEPT !.m_pos.z = z]
        a  == set_travel_acceleration(w1)
    IN  [w |-> a.w,
         out |-> a.out \o
                 << Line("G17", << >>, FALSE),
                    Line("G3", << <<"Z", z>>, <<"I", ij_offset[1]>>, <<"J", ij_offset[2]>>,
                                  <<"P", 1>>, <<"F", ZSpeed(w1, tool_change) * 60>> >>,
                         EmitComment(full_gcode_comment, TRUE)) >>]

\* will_move_z forgetting the lift applied
will_move_z_IgnoreLift(w, z) == ~ (Abs(w.m_pos.z - z) < EPSILON)

\* will_move_z without the EPSILON of a writer that is not lifted
will_move_z_Exact(w, z) ==
    IF w.m_lifted > 0
    THEN ~ (z >= w.m_pos.z - w.m_lifted /\ z <= w.m_pos.z)
    ELSE w.m_pos.z # z

will_move_z(w, z) ==
    IF w.m_lifted > 0
    THEN LET nominal_z == w.m_pos.z - w.m_lifted
         IN  ~ (z >= nominal_z /\ z <= w.m_pos.z)
    ELSE ~ (Abs(w.m_pos.z - z) < EPSILON)

\* the target lift computed without looking at the band
TargetLift_NoBand(w, tool_change) ==
    IF tool_change /\ config.prime_tower_lift_height > 0
    THEN config.prime_tower_lift_height
    ELSE config.z_hop[Cur(w).id]

\* the target lift lazy_lift and eager_lift compute
TargetLift(w, tool_change) ==
    LET extruder_id == Cur(w).extruder_id
        filament_id == Cur(w).id
        above == config.retract_lift_above[extruder_id]
        below == config.retract_lift_below[extruder_id]
    IN  IF w.m_pos.z >= above /\ w.m_pos.z <= below
        THEN IF tool_change /\ config.prime_tower_lift_height > 0
             THEN config.prime_tower_lift_height
             ELSE config.z_hop[filament_id]
        ELSE 0

\* lazy_lift forgetting that a lift is already applied
LazyLiftStarts_IgnoreLifted(w, target_lift) ==
    w.m_to_lift = 0 /\ target_lift > 0

\* lazy_lift forgetting that a lift is already pending
LazyLiftStarts_IgnorePending(w, target_lift) ==
    w.m_lifted = 0 /\ target_lift > 0

\* the condition under which lazy_lift starts a lift
LazyLiftStarts(w, target_lift) ==
    w.m_lifted = 0 /\ w.m_to_lift = 0 /\ target_lift > 0

\* lazy_lift applying the lift at once whatever spiral_vase says
lazy_lift_AlwaysNow(w, lift_type, spiral_vase, tool_change) ==
    LET target_lift == TargetLift(w, tool_change)
    IN  IF LazyLiftStarts(w, target_lift)
        THEN _travel_to_z([w EXCEPT !.m_lifted = target_lift],
                          w.m_pos.z + target_lift, TRUE, tool_change)
        ELSE [w |-> w, out |-> << >>]

lazy_lift(w, lift_type, spiral_vase, tool_change) ==
    LET target_lift == TargetLift(w, tool_change)
    IN  IF LazyLiftStarts(w, target_lift)
        THEN IF spiral_vase
             THEN _travel_to_z([w EXCEPT !.m_lifted = target_lift],
                               w.m_pos.z + target_lift, TRUE, tool_change)
             ELSE [w |-> [w EXCEPT !.m_to_lift = target_lift,
                                   !.m_to_lift_type = lift_type],
                   out |-> << >>]
        ELSE [w |-> w, out |-> << >>]

\* radius = to_lift / (2 * PI * atan(slope_threshold)) = to_lift * 3.0424
SpiralRadius(dz) == (dz * 30424) \div 10000

\* eager_lift choosing the spiral for SpiralLift whatever is known of the
\* position
eager_lift_SpiralUnknown(w, type, tool_change) ==
    LET target_lift == TargetLift(w, tool_change)
        to_lift == target_lift - w.m_lifted
        moved ==
            IF type = "SpiralLift"
            THEN _spiral_travel_to_z(w, w.m_pos.z + to_lift,
                                     <<SpiralRadius(to_lift), 0>>, tool_change)
            ELSE _travel_to_z(w, w.m_pos.z + to_lift, TRUE, tool_change)
    IN  IF to_lift < EPSILON
        THEN [w |-> w, out |-> << >>]
        ELSE [w |-> [moved.w EXCEPT !.m_lifted = target_lift, !.m_to_lift = 0],
              out |-> moved.out]

eager_lift(w, type, tool_change) ==
    LET target_lift == TargetLift(w, tool_change)
        to_lift == target_lift - w.m_lifted
        stay == [w |-> w, out |-> << >>]
        moved ==
            IF type = "SpiralLift" /\ w.m_is_current_pos_clear
            THEN IF to_lift > 0
                 THEN _spiral_travel_to_z(w, w.m_pos.z + to_lift,
                                          <<SpiralRadius(to_lift), 0>>, tool_change)
                 ELSE stay
            ELSE IF to_lift > 0
                 THEN _travel_to_z(w, w.m_pos.z + to_lift, TRUE, tool_change)
                 ELSE stay
    IN  IF to_lift < EPSILON
        THEN stay
        ELSE [w |-> [moved.w EXCEPT !.m_lifted = target_lift, !.m_to_lift = 0],
              out |-> moved.out]

\* unlift clearing the lift without moving back down
unlift_NoMove(w) ==
    [w |-> [w EXCEPT !.m_lifted = 0, !.m_to_lift = 0], out |-> << >>]

\* unlift leaving a pending lift in place
unlift_KeepPending(w) ==
    IF w.m_lifted > 0
    THEN LET down == _travel_to_z(w, w.m_pos.z - w.m_lifted, TRUE, FALSE)
         IN  [w |-> [down.w EXCEPT !.m_lifted = 0], out |-> down.out]
    ELSE [w |-> w, out |-> << >>]

unlift(w) ==
    LET down == _travel_to_z(w, w.m_pos.z - w.m_lifted, TRUE, FALSE)
        r == IF w.m_lifted > 0
             THEN [w |-> [down.w EXCEPT !.m_lifted = 0], out |-> down.out]
             ELSE [w |-> w, out |-> << >>]
    IN  [w |-> [r.w EXCEPT !.m_to_lift = 0], out |-> r.out]

\* travel_to_xy writing the point as it is stored, the plate offset left in
travel_to_xy_NoOffset(w, point, has_comment) ==
    LET w1 == [w EXCEPT !.m_pos.x = point.x, !.m_pos.y = point.y,
                        !.m_is_current_pos_clear = TRUE]
        a == set_travel_acceleration(w1)
    IN  [w |-> a.w,
         out |-> a.out \o << G1(<< <<"X", point.x>>, <<"Y", point.y>>,
                                   <<"F", TravelF(w1)>> >>, has_comment) >>]

travel_to_xy(w, point, has_comment) ==
    LET w1 == [w EXCEPT !.m_pos.x = point.x, !.m_pos.y = point.y,
                        !.m_is_current_pos_clear = TRUE]
        line == G1(<< <<"X", point.x - w.m_x_offset>>, <<"Y", point.y - w.m_y_offset>>,
                      <<"F", TravelF(w1)>> >>, has_comment)
        a == set_travel_acceleration(w1)
    IN  [w |-> a.w, out |-> a.out \o <<line>>]

\* travel_to_z moving without cancelling the lift
travel_to_z_KeepLift(w, z, has_comment) ==
    IF ~ will_move_z(w, z)
    THEN LET nominal_z == w.m_pos.z - w.m_lifted
             lifted == w.m_lifted - (z - nominal_z)
         IN  [w |-> [w EXCEPT !.m_lifted = IF Abs(lifted) < EPSILON THEN 0 ELSE lifted],
              out |-> << >>]
    ELSE LET m == _travel_to_z(w, z, has_comment, FALSE)
             a == set_travel_acceleration(m.w)
         IN  [w |-> a.w, out |-> a.out \o m.out]

\* travel_to_z keeping a lift below EPSILON when it makes no move
travel_to_z_KeepSmall(w, z, has_comment) ==
    IF ~ will_move_z(w, z)
    THEN [w |-> [w EXCEPT !.m_lifted = w.m_pos.z - z], out |-> << >>]
    ELSE LET m == _travel_to_z([w EXCEPT !.m_lifted = 0], z, has_comment, FALSE)
             a == set_travel_acceleration(m.w)
         IN  [w |-> a.w, out |-> a.out \o m.out]

\* travel_to_z leaving the lift as it is when it makes no move
travel_to_z_NoAdjust(w, z, has_comment) ==
    IF ~ will_move_z(w, z)
    THEN [w |-> w, out |-> << >>]
    ELSE LET m == _travel_to_z([w EXCEPT !.m_lifted = 0], z, has_comment, FALSE)
             a == set_travel_acceleration(m.w)
         IN  [w |-> a.w, out |-> a.out \o m.out]

travel_to_z(w, z, has_comment) ==
    IF ~ will_move_z(w, z)
    THEN LET nominal_z == w.m_pos.z - w.m_lifted
             lifted == w.m_lifted - (z - nominal_z)
         IN  [w |-> [w EXCEPT !.m_lifted = IF Abs(lifted) < EPSILON THEN 0 ELSE lifted],
              out |-> << >>]
    ELSE LET m == _travel_to_z([w EXCEPT !.m_lifted = 0], z, has_comment, FALSE)
             a == set_travel_acceleration(m.w)
         IN  [w |-> a.w, out |-> a.out \o m.out]

\* whether the climb angle atan2(dz, |dxy|) is below slope_threshold
BelowSlopeThreshold(dz, norm_sq) ==
    dz * dz * TanDen * TanDen < norm_sq * TanNum * TanNum

\* travel_to_xyz never folding the pending lift into the destination
FoldsPendingLift_Never(w, point) == FALSE

\* whether travel_to_xyz folds the pending lift into the destination
FoldsPendingLift(w, point) ==
    (~ w.m_is_current_pos_clear \/ w.m_pos # point) /\ w.m_to_lift + w.m_pos.z > point.z

\* the pending-lift branch of travel_to_xyz (m_to_lift above EPSILON)
TravelToXyzPending(w, point, has_comment) ==
    LET clear == w.m_is_current_pos_clear
        fold == FoldsPendingLift(w, point)
        dest_point == IF fold THEN [point EXCEPT !.z = w.m_to_lift + w.m_pos.z]
                      ELSE point
        w1 == [w EXCEPT !.m_lifted = IF fold THEN w.m_to_lift + w.m_pos.z - point.z
                                     ELSE w.m_lifted,
                        !.m_to_lift = 0]
        source == [x |-> w.m_pos.x - w.m_x_offset, y |-> w.m_pos.y - w.m_y_offset,
                   z |-> w.m_pos.z]
        target == [x |-> dest_point.x - w.m_x_offset, y |-> dest_point.y - w.m_y_offset,
                   z |-> dest_point.z]
        dx == target.x - source.x
        dy == target.y - source.y
        dz == target.z - source.z
        norm_sq == dx * dx + dy * dy
        norm == ISqrt(norm_sq)
        radius == SpiralRadius(dz)
        \* ij_offset = radius * delta_no_z.normalized(), turned by 90 degrees
        ij_offset == << - ((radius * dy) \div norm), (radius * dx) \div norm >>
        \* temp = delta_no_z.normalized() * delta(2) / tan(slope_threshold)
        slope_top_point ==
            [x |-> source.x + (dx * dz * TanDen) \div (norm * TanNum),
             y |-> source.y + (dy * dz * TanDen) \div (norm * TanNum),
             z |-> source.z + dz]
        none == [w |-> w1, out |-> << >>]
        slop ==
            IF dz > 0 /\ norm_sq # 0
            THEN IF w.m_to_lift_type = "SpiralLift" /\ clear
                 THEN _spiral_travel_to_z(w1, target.z, ij_offset, FALSE)
                 ELSE IF w.m_to_lift_type = "SlopeLift" /\ clear
                         /\ BelowSlopeThreshold(dz, norm_sq)
                 THEN [w |-> w1,
                       out |-> << G1(<< <<"X", slope_top_point.x>>,
                                        <<"Y", slope_top_point.y>>,
                                        <<"Z", slope_top_point.z>>,
                                        <<"F", TravelF(w1)>> >>, TRUE) >>]
                 ELSE IF w.m_to_lift_type = "NormalLift"
                 THEN _travel_to_z(w1, target.z, TRUE, FALSE)
                 ELSE none
            ELSE none
        xy_z ==
            IF clear
            THEN [w |-> slop.w,
                  out |-> << G1(<< <<"X", target.x>>, <<"Y", target.y>>, <<"Z", target.z>>,
                                   <<"F", TravelF(slop.w)>> >>, has_comment) >>]
            ELSE LET m == _travel_to_z(slop.w, target.z, has_comment, FALSE)
                 IN  [w |-> m.w,
                      out |-> << G1(<< <<"X", target.x>>, <<"Y", target.y>>,
                                       <<"F", TravelF(slop.w)>> >>, has_comment) >>
                              \o m.out]
        w2 == [xy_z.w EXCEPT !.m_pos = dest_point, !.m_is_current_pos_clear = TRUE]
        a == set_travel_acceleration(w2)
    IN  [w |-> a.w, out |-> a.out \o slop.out \o xy_z.out]

\* the last branch of travel_to_xyz: a real XYZ move that cancels the lift
TravelToXyzMove(w, point, has_comment) ==
    LET w1 == [w EXCEPT !.m_lifted = 0]
        point_on_plate == [x |-> point.x - w.m_x_offset, y |-> point.y - w.m_y_offset,
                           z |-> point.z]
        moved ==
            IF ~ w.m_is_current_pos_clear
            THEN LET m == _travel_to_z(w1, point_on_plate.z, has_comment, FALSE)
                 IN  [w |-> m.w,
                      out |-> << G1(<< <<"X", point_on_plate.x>>, <<"Y", point_on_plate.y>>,
                                       <<"F", TravelF(w1)>> >>, has_comment) >>
                              \o m.out]
            ELSE [w |-> w1,
                  out |-> << G1(<< <<"X", point_on_plate.x>>, <<"Y", point_on_plate.y>>,
                                   <<"Z", point_on_plate.z>>, <<"F", TravelF(w1)>> >>,
                                has_comment) >>]
        w2 == [moved.w EXCEPT !.m_pos = point, !.m_is_current_pos_clear = TRUE]
        a == set_travel_acceleration(w2)
    IN  [w |-> a.w, out |-> a.out \o moved.out]

travel_to_xyz(w, point, has_comment) ==
    IF Abs(w.m_to_lift) > EPSILON
    THEN TravelToXyzPending(w, point, has_comment)
    ELSE IF ~ will_move_z(w, point.z)
    THEN LET nominal_z == w.m_pos.z - w.m_lifted
             lifted == w.m_lifted - (point.z - nominal_z)
             w1 == [w EXCEPT !.m_lifted = IF Abs(lifted) < EPSILON THEN 0 ELSE lifted,
                             !.m_is_current_pos_clear = TRUE]
         IN  travel_to_xy(w1, [x |-> point.x, y |-> point.y], FALSE)
    ELSE TravelToXyzMove(w, point, has_comment)

----------------------------------------------------------------------------
(* Extrusion and retraction tracker (class Extruder), one record per filament *)

\* the writer with the current filament's Extruder record replaced
WithCur(w, e) == [w EXCEPT !.m_filament_extruders[filament(w)] = e]

\* Extruder::extrude: adds dE to the cumulative E
Extruder_extrude(e, dE) == [e EXCEPT !.E = e.E + dE]

\* Extruder::retract: retracts what is outstanding of length and returns it
Extruder_retract(e, length, restart_extra) ==
    LET to_retract == IF length - e.retracted > 0 THEN length - e.retracted ELSE 0
    IN  IF to_retract > 0
        THEN [e |-> [e EXCEPT !.E = e.E - to_retract,
                              !.retracted = e.retracted + to_retract,
                              !.restart_extra = restart_extra],
              dE |-> to_retract]
        ELSE [e |-> e, dE |-> 0]

\* Extruder::unretract: gives back the retracted length plus the restart extra
Extruder_unretract(e) ==
    LET dE == e.retracted + e.restart_extra
    IN  [e |-> [e EXCEPT !.E = e.E + dE, !.retracted = 0, !.restart_extra = 0],
         dE |-> dE]

\* Extruder::reset_E
Extruder_reset_E(e) == [e EXCEPT !.E = 0]

\* reset_e writing its command without resetting the tracker
reset_e_KeepE(w, force) ==
    LET selected == w.m_curr_extruder_id # NoExtruder /\ filament(w) # nullptr
    IN  IF config.gcode_flavor \in {"gcfMach3", "gcfMakerWare", "gcfSailfish"}
        THEN [w |-> w, out |-> << >>]
        ELSE IF selected /\ Cur(w).E = 0 /\ ~ force
        THEN [w |-> w, out |-> << >>]
        ELSE IF ~ config.use_relative_e_distances
        THEN [w |-> w, out |-> << Line("G92", << <<"E", 0>> >>, full_gcode_comment) >>]
        ELSE [w |-> w, out |-> << >>]

reset_e(w, force) ==
    LET selected == w.m_curr_extruder_id # NoExtruder /\ filament(w) # nullptr
        w1 == IF selected THEN WithCur(w, Extruder_reset_E(Cur(w))) ELSE w
    IN  IF config.gcode_flavor \in {"gcfMach3", "gcfMakerWare", "gcfSailfish"}
        THEN [w |-> w, out |-> << >>]
        ELSE IF selected /\ Cur(w).E = 0 /\ ~ force
        THEN [w |-> w, out |-> << >>]
        ELSE IF ~ config.use_relative_e_distances
        THEN [w |-> w1, out |-> << Line("G92", << <<"E", 0>> >>, full_gcode_comment) >>]
        ELSE [w |-> w1, out |-> << >>]

toolchange_prefix ==
    IF config.gcode_flavor = "gcfMakerWare" THEN "M135"
    ELSE IF config.gcode_flavor = "gcfSailfish" THEN "M108"
    ELSE "T"

\* toolchange writing its command in a single-extruder setup as well
ToolchangeText_Always(w, filament_id) ==
    LET r == reset_e(w, TRUE)
        cmd == IF w.m_is_bbl_printer THEN "M1020" ELSE toolchange_prefix
        letter == IF w.m_is_bbl_printer THEN "S" ELSE "T"
    IN  [w |-> r.w,
         out |-> << Line(cmd, << <<letter, filament_id>> >>, full_gcode_comment) >>
                 \o r.out]

\* the text toolchange returns once the new tool is recorded
ToolchangeText(w, filament_id) ==
    IF w.multiple_extruders
    THEN LET r == reset_e(w, TRUE)
             cmd == IF w.m_is_bbl_printer THEN "M1020" ELSE toolchange_prefix
             letter == IF w.m_is_bbl_printer THEN "S" ELSE "T"
         IN  [w |-> r.w,
              out |-> << Line(cmd, << <<letter, filament_id>> >>, full_gcode_comment) >>
                      \o r.out]
    ELSE [w |-> w, out |-> << >>]

\* the assertion of toolchange, set_extruder and init_extruder: the filament
\* is one of the configured ones
IsConfigured(w, filament_id) ==
    LET it == lower_bound_by_id(w, filament_id)
    IN  it <= Len(w.m_filament_extruders) /\ w.m_filament_extruders[it].id = filament_id

\* the selection toolchange and init_extruder record
SelectFilament(w, filament_id) ==
    LET it == lower_bound_by_id(w, filament_id)
        extruder_id == w.m_filament_extruders[it].extruder_id
    IN  [w EXCEPT !.m_curr_extruder_id = extruder_id,
                  !.m_curr_filament_extruder[extruder_id] = it,
                  !.freed = @ \ {extruder_id}]

toolchange(w, filament_id) == ToolchangeText(SelectFilament(w, filament_id), filament_id)

\* need_toolchange telling a change only before the first selection
need_toolchange_OnlyUnset(w, filament_id) ==
    filament(w) = nullptr

need_toolchange(w, filament_id) ==
    filament(w) = nullptr \/ Cur(w).id # filament_id

set_extruder(w, filament_id) ==
    IF need_toolchange(w, filament_id) THEN toolchange(w, filament_id)
    ELSE [w |-> w, out |-> << >>]

\* init_extruder selecting the filament over a selection already made
init_extruder_Always(w, filament_id) ==
    IF filament_id # -1
    THEN SelectFilament(w, filament_id)
    ELSE w

init_extruder(w, filament_id) ==
    IF w.m_curr_extruder_id = NoExtruder /\ filament_id # -1
    THEN SelectFilament(w, filament_id)
    ELSE w

----------------------------------------------------------------------------
(* Extruding moves, retraction *)

\* the extrusion step taken whatever force_no_extrusion says
Extrude_Always(w, dE, force_no_extrusion) ==
    WithCur(w, Extruder_extrude(Cur(w), dE))

\* the extrusion step shared by the extrude_* calls
Extrude(w, dE, force_no_extrusion) ==
    IF ~ force_no_extrusion THEN WithCur(w, Extruder_extrude(Cur(w), dE)) ELSE w

\* the E fragment of an extruding move
EFragment(w, force_no_extrusion) ==
    IF ~ force_no_extrusion THEN << <<"E", Cur(w).E>> >> ELSE << >>

extrude_to_xy(w, point, dE, has_comment, force_no_extrusion) ==
    LET w1 == Extrude([w EXCEPT !.m_pos.x = point.x, !.m_pos.y = point.y],
                      dE, force_no_extrusion)
        line == G1(<< <<"X", point.x - w.m_x_offset>>, <<"Y", point.y - w.m_y_offset>> >>
                   \o EFragment(w1, force_no_extrusion), has_comment)
        a == set_extrude_acceleration(w1)
    IN  [w |-> a.w, out |-> a.out \o <<line>>]

extrude_arc_to_xy(w, point, center_offset, dE, is_ccw, has_comment, force_no_extrusion) ==
    LET w1 == Extrude([w EXCEPT !.m_pos.x = point.x, !.m_pos.y = point.y],
                      dE, force_no_extrusion)
        line == Line(IF is_ccw THEN "G3" ELSE "G2",
                     << <<"X", point.x - w.m_x_offset>>, <<"Y", point.y - w.m_y_offset>>,
                        <<"I", center_offset[1]>>, <<"J", center_offset[2]>> >>
                     \o EFragment(w1, force_no_extrusion),
                     EmitComment(full_gcode_comment, has_comment))
        a == set_extrude_acceleration(w1)
    IN  [w |-> a.w, out |-> a.out \o <<line>>]

\* extrude_to_xyz leaving the lift applied in place
extrude_to_xyz_KeepLift(w, point, dE, has_comment, force_no_extrusion) ==
    LET w1 == Extrude([w EXCEPT !.m_pos = point], dE, force_no_extrusion)
        line == G1(<< <<"X", point.x - w.m_x_offset>>, <<"Y", point.y - w.m_y_offset>>,
                      <<"Z", point.z>> >>
                   \o EFragment(w1, force_no_extrusion), has_comment)
        a == set_extrude_acceleration(w1)
    IN  [w |-> a.w, out |-> a.out \o <<line>>]

extrude_to_xyz(w, point, dE, has_comment, force_no_extrusion) ==
    LET w1 == Extrude([w EXCEPT !.m_pos = point, !.m_lifted = 0], dE, force_no_extrusion)
        line == G1(<< <<"X", point.x - w.m_x_offset>>, <<"Y", point.y - w.m_y_offset>>,
                      <<"Z", point.z>> >>
                   \o EFragment(w1, force_no_extrusion), has_comment)
        a == set_extrude_acceleration(w1)
    IN  [w |-> a.w, out |-> a.out \o <<line>>]

\* _retract writing the retraction command whatever delta was applied
RetractEmits_Always(dE) == TRUE

\* whether _retract writes the retraction command
RetractEmits(dE) == dE # 0

_retract(w, length, restart_extra) ==
    LET len == IF config.use_firmware_retraction THEN 1 ELSE length
        r == Extruder_retract(Cur(w), len, restart_extra)
        w1 == WithCur(w, r.e)
        gcode ==
            IF RetractEmits(r.dE)
            THEN IF config.use_firmware_retraction
                 THEN IF config.gcode_flavor = "gcfMachinekit"
                      THEN << [cmd |-> "G22", args |-> << >>, cmt |-> TRUE, nl |-> FALSE] >>
                      ELSE << Line("G10", << >>, TRUE) >>
                 ELSE << G1(<< <<"E", Cur(w1).E>>,
                               <<"F", config.retract_speed[Cur(w1).id] * 60>> >>, TRUE) >>
            ELSE << >>
    IN  [w |-> w1,
         out |-> IF config.gcode_flavor = "gcfMakerWare"
                 THEN gcode \o << Line("M103", << >>, TRUE) >>
                 ELSE gcode]

\* factor * length for the factor retract_before_wipe, a percentage
Scaled(before_wipe, filament_id, length) ==
    IF before_wipe THEN (config.retract_before_wipe[filament_id] * length) \div 100
    ELSE length

retract(w, before_wipe) ==
    _retract(w, Scaled(before_wipe, Cur(w).id, config.retraction_length[Cur(w).id]),
                Scaled(before_wipe, Cur(w).id, config.retract_restart_extra[Cur(w).id]))

retract_for_toolchange(w, before_wipe) ==
    _retract(w, Scaled(before_wipe, Cur(w).id, config.retract_length_toolchange[Cur(w).id]),
                Scaled(before_wipe, Cur(w).id,
                       config.retract_restart_extra_toolchange[Cur(w).id]))

\* unretract without the reset_e that follows a firmware unretraction
unretract_NoReset(w) ==
    LET on == IF config.gcode_flavor = "gcfMakerWare"
              THEN << Line("M101", << >>, TRUE) >> ELSE << >>
        r == Extruder_unretract(Cur(w))
        w1 == WithCur(w, r.e)
    IN  IF r.dE # 0
        THEN IF config.use_firmware_retraction
             THEN [w |-> w1,
                   out |-> on \o << Line(IF config.gcode_flavor = "gcfMachinekit"
                                         THEN "G23" ELSE "G11", << >>, TRUE) >>]
             ELSE [w |-> w1,
                   out |-> on \o << G1(<< <<"E", Cur(w1).E>>,
                                          <<"F", config.deretract_speed[Cur(w1).id] * 60>> >>,
                                       TRUE) >>]
        ELSE [w |-> w1, out |-> on]

unretract(w) ==
    LET on == IF config.gcode_flavor = "gcfMakerWare"
              THEN << Line("M101", << >>, TRUE) >> ELSE << >>
        r == Extruder_unretract(Cur(w))
        w1 == WithCur(w, r.e)
        fw == reset_e(w1, FALSE)
    IN  IF r.dE # 0
        THEN IF config.use_firmware_retraction
             THEN [w |-> fw.w,
                   out |-> on \o << Line(IF config.gcode_flavor = "gcfMachinekit"
                                         THEN "G23" ELSE "G11", << >>, TRUE) >> \o fw.out]
             ELSE [w |-> w1,
                   out |-> on \o << G1(<< <<"E", Cur(w1).E>>,
                                          <<"F", config.deretract_speed[Cur(w1).id] * 60>> >>,
                                       TRUE) >>]
        ELSE [w |-> w1, out |-> on]

----------------------------------------------------------------------------
(* Feedrate *)

\* the assertions of set_speed letting every feedrate below 100000 through
SetSpeedAsserts_UpperOnly(F) == F < 100000

\* the two assertions of set_speed
SetSpeedAsserts(F) == F > 0 /\ F < 100000

\* set_speed with an empty cooling marker.  assert() is the macro of
\* <assert.h>: it ends the program when its condition fails, and is no
\* statement at all in a build that defines NDEBUG.  aborted tells whether the
\* call ended the program instead of returning
set_speed(w, F, has_comment, NDEBUG) ==
    IF ~ NDEBUG /\ ~ SetSpeedAsserts(F)
    THEN [w |-> w, out |-> << >>, aborted |-> TRUE]
    ELSE [w |-> [w EXCEPT !.m_current_speed = F],
          out |-> << G1(<< <<"F", F>> >>, has_comment) >>,
          aborted |-> FALSE]

----------------------------------------------------------------------------
(* Fan *)

\* set_fan returning nothing for speed 0
set_fan_ZeroSilent(gcode_flavor, speed) ==
    IF speed = 0 THEN << >>
    ELSE << Line("M106", << <<"S", 255 * speed>> >>, full_gcode_comment) >>

\* GCodeWriter::set_fan(gcode_flavor, speed); the number of M106 is
\* 255.0 * speed / 100.0, kept in hundredths
set_fan(gcode_flavor, speed) ==
    IF speed = 0
    THEN IF gcode_flavor \in {"gcfMakerWare", "gcfSailfish"}
         THEN << Line("M127", << >>, full_gcode_comment) >>
         ELSE << Line("M106", << <<"S", 0>> >>, full_gcode_comment) >>
    ELSE IF gcode_flavor \in {"gcfMakerWare", "gcfSailfish"}
         THEN << Line("M126", << >>, full_gcode_comment) >>
         ELSE IF gcode_flavor \in {"gcfMach3", "gcfMachinekit"}
         THEN << Line("M106", << <<"P", 255 * speed>> >>, full_gcode_comment) >>
         ELSE << Line("M106", << <<"S", 255 * speed>> >>, full_gcode_comment) >>

----------------------------------------------------------------------------
(* Temperatures *)

\* set_temperature returning a command for a wait request in every dialect
TemperatureWaitUnsupported_Never(wait) == FALSE

\* the early return of set_temperature: a wait request in these dialects
TemperatureWaitUnsupported(wait) ==
    wait /\ config.gcode_flavor \in {"gcfMakerWare", "gcfSailfish"}

\* set_temperature is a const method: it reads the writer and returns text
set_temperature(w, temperature, wait, tool) ==
    LET flavor == config.gcode_flavor
        m109 == wait /\ flavor # "gcfTeacup" /\ flavor # "gcfRepRapFirmware"
        code == IF m109 THEN "M109"
                ELSE IF flavor = "gcfRepRapFirmware" THEN "G10" ELSE "M104"
        letter == IF flavor \in {"gcfMach3", "gcfMachinekit"} THEN "P" ELSE "S"
        multiple_tools == w.multiple_extruders /\ ~ w.m_single_extruder_multi_material
        tool_arg ==
            IF tool # -1 /\ (multiple_tools \/ flavor \in {"gcfMakerWare", "gcfSailfish"})
            THEN << <<IF flavor = "gcfRepRapFirmware" THEN "P" ELSE "T", tool>> >>
            ELSE << >>
        m116 == IF flavor \in {"gcfTeacup", "gcfRepRapFirmware"} /\ wait
                THEN << Line("M116", << >>, TRUE) >> ELSE << >>
    IN  IF TemperatureWaitUnsupported(wait)
        THEN << >>
        ELSE << Line(code, << <<letter, temperature>> >> \o tool_arg, TRUE) >> \o m116

\* set_bed_temperature without its early return
BedTemperatureKnown_Never(w, temperature, wait) == FALSE

\* set_bed_temperature forgetting whether the temperature was waited for
BedTemperatureKnown_IgnoreWait(w, temperature, wait) ==
    temperature = w.m_last_bed_temperature

\* the early return of set_bed_temperature
BedTemperatureKnown(w, temperature, wait) ==
    temperature = w.m_last_bed_temperature
    /\ (~ wait \/ w.m_last_bed_temperature_reached)

set_bed_temperature(w, temperature, wait) ==
    IF BedTemperatureKnown(w, temperature, wait)
    THEN [w |-> w, out |-> << >>]
    ELSE [w |-> [w EXCEPT !.m_last_bed_temperature = temperature,
                          !.m_last_bed_temperature_reached = wait],
          out |-> << Line(IF wait THEN "M190" ELSE "M140",
                          << <<"S", temperature>> >>, TRUE) >>]

\* set_chamber_temperature reads and writes no member of the writer
set_chamber_temperature(w, temperature, wait) ==
    IF wait
    THEN [w |-> w,
          out |-> << Line("M106", << <<"P", 2>>, <<"S", 255>> >>, FALSE),
                     Line("M191", << <<"S", temperature>> >>, TRUE),
                     Line("M106", << <<"P", 2>>, <<"S", 0>> >>, FALSE) >>]
    ELSE [w |-> w,
          out |-> << Line("M141", << <<"S", temperature>> >>, TRUE) >>]

\* reset_last_acceleration forgetting nothing
reset_last_acceleration_Noop(w) == w

reset_last_acceleration(w) == [w EXCEPT !.m_last_acceleration = 0]

----------------------------------------------------------------------------
(* Set-up: construction, apply_print_config, set_extruders *)

Flavors ==
    {"gcfRepRapSprinter", "gcfRepRapFirmware", "gcfRepetier", "gcfTeacup", "gcfMakerWare",
     "gcfMarlinLegacy", "gcfMarlinFirmware", "gcfKlipper", "gcfSailfish", "gcfMach3",
     "gcfMachinekit", "gcfSmoothie", "gcfNoExtrusion"}

\* the filaments and physical extruders the configuration describes
FilamentIds == {0, 1, 2}
ExtruderIds == {0, 1}

\* a print configuration; the per-filament and per-extruder tables are fixed,
\* the dialect and the modes vary
MakeConfig(flavor, relative_e, firmware_retraction, tower_lift, max_acceleration) ==
    [gcode_flavor |-> flavor,
     use_relative_e_distances |-> relative_e,
     use_firmware_retraction |-> firmware_retraction,
     single_extruder_multi_material |-> FALSE,
     filament_map |-> (0 :> 0 @@ 1 :> 1 @@ 2 :> 0),
     retract_lift_above |-> (0 :> 1 @@ 1 :> 0),
     retract_lift_below |-> (0 :> 2 @@ 1 :> 3),
     z_hop |-> (0 :> 3 @@ 1 :> 1 @@ 2 :> 0),
     prime_tower_lift_height |-> tower_lift,
     prime_tower_lift_speed |-> 90,
     travel_speed |-> (0 :> 100 @@ 1 :> 120),
     travel_speed_z |-> (0 :> 0 @@ 1 :> 10),
     retraction_length |-> (0 :> 2 @@ 1 :> 4 @@ 2 :> 0),
     retract_restart_extra |-> (0 :> 0 @@ 1 :> 2 @@ 2 :> 0),
     retract_length_toolchange |-> (0 :> 4 @@ 1 :> 4 @@ 2 :> 2),
     retract_restart_extra_toolchange |-> (0 :> 0 @@ 1 :> 0 @@ 2 :> 0),
     retract_before_wipe |-> (0 :> 50 @@ 1 :> 100 @@ 2 :> 0),
     retract_speed |-> (0 :> 30 @@ 1 :> 40 @@ 2 :> 30),
     deretract_speed |-> (0 :> 20 @@ 1 :> 40 @@ 2 :> 30),
     accel_to_decel_enable |-> TRUE,
     accel_to_decel_factor |-> 50,
     machine_max_acceleration_extruding |-> max_acceleration,
     machine_max_jerk_x |-> 9,
     machine_max_jerk_y |-> 12]

\* the ids of a set in increasing order (std::sort of set_extruders)
RECURSIVE SortedIds(_)
SortedIds(ids) ==
    IF ids = {} THEN << >>
    ELSE LET m == CHOOSE i \in ids : \A j \in ids : i <= j
         IN  <<m>> \o SortedIds(ids \ {m})

\* Extruder::Extruder: a fresh tracker of one filament
NewExtruder(cfg, id) ==
    [id |-> id, extruder_id |-> cfg.filament_map[id],
     E |-> 0, retracted |-> 0, restart_extra |-> 0]

\* the largest id of set_extruders
MaxId(ids) == CHOOSE i \in ids : \A j \in ids : j <= i

\* clear() destroys the Extruders and keeps the storage; reserve() takes new
\* storage and releases the old one when the ids outnumber the capacity.  The
\* entries of m_curr_filament_extruder are not written: they keep the
\* position they point to, in storage that is released (freed) or whose
\* Extruders were destroyed and built anew
set_extruders(cfg, w, extruder_ids) ==
    LET sorted == SortedIds(extruder_ids)
        reallocates == Len(sorted) > w.capacity
    IN  [w EXCEPT !.m_filament_extruders =
                      [i \in 1..Len(sorted) |-> NewExtruder(cfg, sorted[i])],
                  !.capacity = IF reallocates THEN Len(sorted) ELSE @,
                  !.freed = IF reallocates
                            THEN {e \in ExtruderIds : w.m_curr_filament_extruder[e] # nullptr}
                            ELSE @,
                  !.multiple_extruders = MaxId(extruder_ids) > 0]

IsMarlin(cfg) ==
    cfg.gcode_flavor \in {"gcfMarlinLegacy", "gcfMarlinFirmware", "gcfKlipper"}

apply_print_config(cfg, w) ==
    [w EXCEPT !.m_single_extruder_multi_material = cfg.single_extruder_multi_material,
              !.m_max_acceleration =
                  IF IsMarlin(cfg) THEN cfg.machine_max_acceleration_extruding ELSE 0,
              !.m_max_jerk =
                  IF IsMarlin(cfg)
                  THEN IF cfg.machine_max_jerk_x < cfg.machine_max_jerk_y
                       THEN cfg.machine_max_jerk_x ELSE cfg.machine_max_jerk_y
                  ELSE 0]

\* GCodeWriter::GCodeWriter: the members after construction
Constructed ==
    [m_filament_extruders |-> << >>,
     capacity |-> 0,    \* m_filament_extruders.capacity()
     freed |-> {},      \* the extruders whose current filament points to released storage
     multiple_extruders |-> FALSE,
     m_single_extruder_multi_material |-> FALSE,
     m_is_bbl_printer |-> FALSE,
     m_curr_extruder_id |-> NoExtruder,
     m_curr_filament_extruder |-> [e \in ExtruderIds |-> nullptr],
     m_pos |-> [x |-> 0, y |-> 0, z |-> 0],
     m_lifted |-> 0,
     m_to_lift |-> 0,
     m_to_lift_type |-> "NormalLift",
     m_is_current_pos_clear |-> FALSE,
     m_x_offset |-> 0,
     m_y_offset |-> 0,
     m_acceleration |-> 0,
     m_travel_accelerations |-> << >>,
     m_first_layer_travel_accelerations |-> << >>,
     m_is_first_layer |-> TRUE,
     m_max_acceleration |-> 0,
     m_last_acceleration |-> 0,
     m_max_jerk |-> 0,
     m_last_jerk |-> 0,
     m_last_bed_temperature |-> 0,
     m_last_bed_temperature_reached |-> TRUE,
     m_current_speed |-> 3600]

\* a writer set up for printing: constructed, configured, its tool set given
SetUp(cfg, extruder_ids) == set_extruders(cfg, apply_print_config(cfg, Constructed), extruder_ids)

\* before any call
NoCall == [op |-> "none"]

NoLift == [active |-> FALSE, nominal |-> 0]

\* the nominal Z: the stored Z minus the lift applied
Nominal(w) == w.m_pos.z - w.m_lifted

----------------------------------------------------------------------------------------------------------------------------------------
(* The position and lift state machine: specification Spec *)

\* the XY points and the Z heights the calls are given
Points == {[x |-> 0, y |-> 0], [x |-> 60, y |-> 10]}
Heights == 0..MaxZ
Points3 == {[x |-> p.x, y |-> p.y, z |-> z] : p \in Points, z \in Heights}

\* a tool is selected: the calls below dereference filament()
Selected == filament(writer) # nullptr

\* the three states of the lift machine, read off m_lifted and m_to_lift
LiftState(w) ==
    IF w.m_lifted = 0 /\ w.m_to_lift = 0 THEN "Flat"
    ELSE IF w.m_lifted = 0 /\ w.m_to_lift > 0 THEN "Pending"
    ELSE IF w.m_lifted > 0 /\ w.m_to_lift = 0 THEN "Lifted"
    ELSE "Other"

Init ==
    /\ \E tower_lift \in {0, 4} :
           config = MakeConfig("gcfMarlinFirmware", FALSE, FALSE, tower_lift, 2000)
    /\ writer = [SetUp(config, {0, 1}) EXCEPT
                     !.m_x_offset = 5, !.m_y_offset = 2,
                     !.m_travel_accelerations = <<3000, 3000>>,
                     !.m_first_layer_travel_accelerations = <<500, 500>>,
                     !.m_is_first_layer = FALSE]
    /\ last = NoCall
    /\ since_lift = NoLift

\* the record of a call in this specification: its name and the state of the
\* lift machine it was made in; that of travel_to_xyz has the stored Z it
\* was made at as well, and whether the position was known
LiftCall(op) == [op |-> op, pre |-> LiftState(writer)]

Toolchange ==
    \E filament_id \in FilamentIds :
        /\ IsConfigured(writer, filament_id)
        /\ LET r == toolchange(writer, filament_id)
           IN  /\ writer' = r.w
               /\ last' = LiftCall("toolchange")
        /\ UNCHANGED <<config, since_lift>>

SetCurrentPositionClear ==
    /\ writer' = [writer EXCEPT !.m_is_current_pos_clear = FALSE]
    /\ last' = LiftCall("set_current_position_clear")
    /\ UNCHANGED <<config, since_lift>>

LazyLift ==
    \E lift_type \in LiftTypes, spiral_vase \in BOOLEAN, tool_change \in BOOLEAN :
        /\ Selected
        /\ LET r == lazy_lift(writer, lift_type, spiral_vase, tool_change)
           IN  /\ writer' = r.w
               /\ last' = LiftCall("lazy_lift")
        /\ since_lift' = [active |-> TRUE, nominal |-> Nominal(writer)]
        /\ UNCHANGED config

EagerLift ==
    \E type \in LiftTypes, tool_change \in BOOLEAN :
        /\ Selected
        /\ LET r == eager_lift(writer, type, tool_change)
           IN  /\ writer' = r.w
               /\ last' = LiftCall("eager_lift")
        /\ since_lift' = [active |-> TRUE, nominal |-> Nominal(writer)]
        /\ UNCHANGED config

Unlift ==
    /\ Selected
    /\ LET r == unlift(writer)
       IN  /\ writer' = r.w
           /\ last' = LiftCall("unlift")
    /\ UNCHANGED <<config, since_lift>>

TravelToXy ==
    \E point \in Points :
        /\ Selected
        /\ LET r == travel_to_xy(writer, point, TRUE)
           IN  /\ writer' = r.w
               /\ last' = LiftCall("travel_to_xy")
        /\ UNCHANGED <<config, since_lift>>

TravelToZ ==
    \E z \in Heights :
        /\ Selected
        /\ LET r == travel_to_z(writer, z, TRUE)
           IN  /\ writer' = r.w
               /\ last' = LiftCall("travel_to_z")
        /\ since_lift' = NoLift
        /\ UNCHANGED config

TravelToXyz ==
    \E point \in Points3 :
        /\ Selected
        /\ LET r == travel_to_xyz(writer, point, TRUE)
           IN  /\ writer' = r.w
               /\ last' = [op |-> "travel_to_xyz", pre |-> LiftState(writer),
                           z |-> writer.m_pos.z,
                           clear |-> writer.m_is_current_pos_clear]
        /\ since_lift' = NoLift
        /\ UNCHANGED config

ExtrudeToXy ==
    \E point \in Points, force_no_extrusion \in BOOLEAN :
        /\ Selected
        /\ LET r == extrude_to_xy(writer, point, 0, TRUE, force_no_extrusion)
           IN  /\ writer' = r.w
               /\ last' = LiftCall("extrude_to_xy")
        /\ UNCHANGED <<config, since_lift>>

ExtrudeToXyz ==
    \E point \in Points3 :
        /\ Selected
        /\ LET r == extrude_to_xyz(writer, point, 0, TRUE, FALSE)
           IN  /\ writer' = r.w
               /\ last' = LiftCall("extrude_to_xyz")
        /\ since_lift' = NoLift
        /\ UNCHANGED config

Next ==
    \/ Toolchange
    \/ SetCurrentPositionClear
    \/ LazyLift
    \/ EagerLift
    \/ Unlift
    \/ TravelToXy
    \/ TravelToZ
    \/ TravelToXyz
    \/ ExtrudeToXy
    \/ ExtrudeToXyz

Spec == Init /\ [][Next]_vars

----------------------------------------------------------------------------
(* Properties of the position and lift state machine *)

\* C1: in every state reached by lift, unlift, travel, extrude and toolchange
\* calls, lifted and pending_lift are never both non-zero
C1_LiftedPendingExclusive ==
    ~ (writer.m_lifted # 0 /\ writer.m_to_lift # 0)

\* a pending lift was materialized into lifted by travel_to_xyz
C1_Witness ==
    /\ last.op = "travel_to_xyz"
    /\ last.pre = "Pending"
    /\ writer.m_lifted > 0
    /\ writer.m_to_lift = 0

\* C2: an unlift that follows a lazy_lift or eager_lift, with no Z-affecting
\* call in between, leaves the nominal Z within EPSILON of the nominal Z
\* before the lift, and leaves lifted = 0 and pending_lift = 0
C2_LiftUnliftConserves ==
    (last.op = "unlift" /\ since_lift.active) =>
        /\ Abs(Nominal(writer) - since_lift.nominal) < EPSILON
        /\ writer.m_lifted = 0
        /\ writer.m_to_lift = 0

\* an unlift that took back an applied lift, after a lift call
C2_Witness ==
    /\ last.op = "unlift"
    /\ since_lift.active
    /\ last.pre = "Lifted"
    /\ writer.m_pos.z = since_lift.nominal

\* C9: lazy_lift called while Pending or Lifted returns the empty string and
\* changes nothing of the writer (position, lifted, pending_lift, lift type)
C9_LazyLiftNoOpWhenBusy ==
    (Selected /\ (writer.m_to_lift > 0 \/ writer.m_lifted > 0)) =>
        \A lift_type \in LiftTypes, spiral_vase \in BOOLEAN, tool_change \in BOOLEAN :
            lazy_lift(writer, lift_type, spiral_vase, tool_change)
                = [w |-> writer, out |-> << >>]

\* lazy_lift was called on a lifted writer whose target lift is positive and
\* differs from the lift applied
C9_Witness ==
    /\ last.op = "lazy_lift"
    /\ last.pre = "Lifted"
    /\ writer.m_lifted > 0
    /\ TargetLift(writer, FALSE) > 0
    /\ TargetLift(writer, FALSE) # writer.m_lifted

\* the text holds a G1 line that moves Z to z
HasZMove(out, z) ==
    \E i \in 1..Len(out) :
        out[i].cmd = "G1" /\ \E k \in 1..Len(out[i].args) : out[i].args[k] = <<"Z", z>>

\* C10: lazy_lift from Flat with a positive target lift: with spiral_vase it
\* emits a Z move to Z + target and the writer is Lifted by the target;
\* without, it emits nothing, keeps the position and the writer is Pending
\* with the target and the requested lift type
C10_LazyLiftFromFlat ==
    (Selected /\ LiftState(writer) = "Flat") =>
        \A lift_type \in LiftTypes, spiral_vase \in BOOLEAN, tool_change \in BOOLEAN :
            LET target == TargetLift(writer, tool_change)
                r == lazy_lift(writer, lift_type, spiral_vase, tool_change)
            IN  target > 0 =>
                    IF spiral_vase
                    THEN /\ HasZMove(r.out, writer.m_pos.z + target)
                         /\ r.w.m_lifted = target
                         /\ r.w.m_to_lift = 0
                         /\ r.w.m_pos = [writer.m_pos EXCEPT !.z = writer.m_pos.z + target]
                    ELSE /\ r.out = << >>
                         /\ r.w.m_pos = writer.m_pos
                         /\ r.w.m_to_lift = target
                         /\ r.w.m_lifted = 0
                         /\ r.w.m_to_lift_type = lift_type

\* lazy_lift in spiral vase mode lifted a flat writer at once
C10_Witness ==
    /\ last.op = "lazy_lift"
    /\ last.pre = "Flat"
    /\ LiftState(writer) = "Lifted"
    /\ since_lift.active
    /\ writer.m_pos.z - writer.m_lifted = since_lift.nominal

----------------------------------------------------------------------------
(* Properties of the lift operations *)

\* the stored Z lies in the lift band of the current extruder
InBand(w) ==
    /\ w.m_pos.z >= config.retract_lift_above[Cur(w).extruder_id]
    /\ w.m_pos.z <= config.retract_lift_below[Cur(w).extruder_id]

\* C11: the lift lazy_lift starts from Flat is the Z-hop of the current
\* filament (the prime-tower lift height when tool_change is set and that
\* height is positive) when the stored Z lies in the band
\* [retract_lift_above, retract_lift_below], and zero otherwise; when it is
\* zero lazy_lift returns the empty string and changes nothing
C11_LazyLiftTarget ==
    Selected =>
        \A lift_type \in LiftTypes, spiral_vase \in BOOLEAN, tool_change \in BOOLEAN :
            LET height == IF tool_change /\ config.prime_tower_lift_height > 0
                          THEN config.prime_tower_lift_height
                          ELSE config.z_hop[Cur(writer).id]
                target == IF InBand(writer) THEN height ELSE 0
                r == lazy_lift(writer, lift_type, spiral_vase, tool_change)
            IN  /\ target = 0 => r = [w |-> writer, out |-> << >>]
                /\ (target > 0 /\ LiftState(writer) = "Flat") =>
                       r.w.m_lifted + r.w.m_to_lift = target

\* lazy_lift was called on a flat writer whose Z is outside the band of a
\* tool with a positive Z-hop, and the writer is still flat
C11_Witness ==
    /\ last.op = "lazy_lift"
    /\ last.pre = "Flat"
    /\ LiftState(writer) = "Flat"
    /\ config.z_hop[Cur(writer).id] > 0
    /\ ~ InBand(writer)

\* C12: eager_lift, in any state and for any computed target lift, ends with
\* pending_lift = 0 and lifted equal to the computed target lift
C12_EagerLiftAlways ==
    Selected =>
        \A type \in LiftTypes, tool_change \in BOOLEAN :
            LET r == eager_lift(writer, type, tool_change)
            IN  /\ r.w.m_to_lift = 0
                /\ r.w.m_lifted = TargetLift(writer, tool_change)

\* the text holds a line of the given mnemonic
HasCommand(out, cmd) == \E i \in 1..Len(out) : out[i].cmd = cmd

\* the text holds a G3 arc that ends at the height z
HasSpiralTo(out, z) ==
    \E i \in 1..Len(out) :
        out[i].cmd = "G3" /\ \E k \in 1..Len(out[i].args) : out[i].args[k] = <<"Z", z>>

\* C13: when the target lift exceeds the lift applied by at least EPSILON,
\* eager_lift returns a move that raises the stored Z by exactly the
\* difference: a spiral (G17 and an arc) when the lift type is SpiralLift
\* and the position is known, a straight Z move in every other case
C13_EagerLiftMove ==
    Selected =>
        \A type \in LiftTypes, tool_change \in BOOLEAN :
            LET to_lift == TargetLift(writer, tool_change) - writer.m_lifted
                z == writer.m_pos.z + to_lift
                r == eager_lift(writer, type, tool_change)
            IN  to_lift >= EPSILON =>
                    /\ r.w.m_pos = [writer.m_pos EXCEPT !.z = z]
                    /\ IF type = "SpiralLift" /\ writer.m_is_current_pos_clear
                       THEN /\ HasCommand(r.out, "G17")
                            /\ HasSpiralTo(r.out, z)
                            /\ ~ HasCommand(r.out, "G1")
                       ELSE /\ HasZMove(r.out, z)
                            /\ ~ HasCommand(r.out, "G17")
                            /\ ~ HasCommand(r.out, "G3")

\* eager_lift lifted a flat writer whose position was not known
C13_Witness ==
    /\ last.op = "eager_lift"
    /\ last.pre = "Flat"
    /\ writer.m_lifted >= EPSILON
    /\ ~ writer.m_is_current_pos_clear
    /\ Nominal(writer) = since_lift.nominal

\* C14: unlift with lifted > 0 returns a Z move to the stored Z minus
\* lifted, lowers the stored Z by that amount and sets lifted to 0; in every
\* case it sets pending_lift to 0; in the Flat state it returns the empty
\* string and changes nothing
C14_Unlift ==
    LET r == unlift(writer)
    IN  /\ writer.m_lifted > 0 =>
               /\ HasZMove(r.out, writer.m_pos.z - writer.m_lifted)
               /\ r.w.m_pos = [writer.m_pos EXCEPT !.z = writer.m_pos.z - writer.m_lifted]
               /\ r.w.m_lifted = 0
        /\ r.w.m_to_lift = 0
        /\ LiftState(writer) = "Flat" => r = [w |-> writer, out |-> << >>]

\* unlift dropped a lift that was pending, whatever its type
C14_Witness ==
    /\ last.op = "unlift"
    /\ last.pre = "Pending"
    /\ LiftState(writer) = "Flat"

\* C15: travel_to_z(z) on a lifted writer with nominal Z <= z <= stored Z
\* returns no command and leaves the stored Z as it is; only lifted becomes
\* stored Z - z, and exactly 0 when that is below EPSILON
C15_TravelToZWithinLift ==
    writer.m_lifted > 0 =>
        \A z \in Nominal(writer)..writer.m_pos.z :
            LET r == travel_to_z(writer, z, TRUE)
                left == writer.m_pos.z - z
            IN  /\ r.out = << >>
                /\ r.w = [writer EXCEPT !.m_lifted = IF Abs(left) < EPSILON THEN 0 ELSE left]

\* travel_to_z on a lifted writer left it lifted: no move was made
C15_Witness ==
    /\ last.op = "travel_to_z"
    /\ last.pre = "Lifted"
    /\ LiftState(writer) = "Lifted"

\* travel_to_z(z) makes a real move: z is outside [nominal Z, stored Z] of a
\* lifted writer, or at least EPSILON away from the stored Z of a writer
\* that is not lifted
MovesZ(w, z) ==
    \/ w.m_lifted > 0 /\ (z < Nominal(w) \/ z > w.m_pos.z)
    \/ w.m_lifted = 0 /\ Abs(w.m_pos.z - z) >= EPSILON

\* C16 as stated: such a travel_to_z returns a Z move to z, sets the stored
\* Z to z and lifted to 0, and the writer ends in the Flat state
C16_TravelToZMovesAsStated ==
    Selected =>
        \A z \in Heights :
            LET r == travel_to_z(writer, z, TRUE)
            IN  MovesZ(writer, z) =>
                    /\ HasZMove(r.out, z)
                    /\ r.w.m_pos.z = z
                    /\ r.w.m_lifted = 0
                    /\ LiftState(r.w) = "Flat"

\* C16 amended: such a travel_to_z returns a Z move to z, sets the stored Z
\* to z and lifted to 0 and leaves pending_lift as it was: the writer ends
\* in the Flat state unless a lift was pending, which stays pending
C16_TravelToZMoves ==
    Selected =>
        \A z \in Heights :
            LET r == travel_to_z(writer, z, TRUE)
            IN  MovesZ(writer, z) =>
                    /\ HasZMove(r.out, z)
                    /\ r.w.m_pos.z = z
                    /\ r.w.m_lifted = 0
                    /\ r.w.m_to_lift = writer.m_to_lift
                    /\ LiftState(r.w) = IF writer.m_to_lift > 0 THEN "Pending" ELSE "Flat"

\* travel_to_z moved a lifted writer down to Z = 0, below its nominal Z
C16_Witness ==
    /\ last.op = "travel_to_z"
    /\ last.pre = "Lifted"
    /\ LiftState(writer) = "Flat"
    /\ writer.m_pos.z = 0

\* the last line of the text is a G1 move that sets Z to z
EndsWithMoveTo(out, z) ==
    /\ out # << >>
    /\ out[Len(out)].cmd = "G1"
    /\ \E k \in 1..Len(out[Len(out)].args) : out[Len(out)].args[k] = <<"Z", z>>

\* what C17 says of travel_to_xyz(p) on a writer with a pending lift
FoldsOrDiscards(w, p) ==
    LET r == travel_to_xyz(w, p, TRUE)
        raised == w.m_pos.z + w.m_to_lift
    IN  /\ (raised > p.z /\ (~ w.m_is_current_pos_clear \/ w.m_pos # p)) =>
               /\ r.w.m_pos = [p EXCEPT !.z = raised]
               /\ r.w.m_lifted = raised - p.z
               /\ r.w.m_to_lift = 0
               /\ EndsWithMoveTo(r.out, raised)
        /\ (w.m_is_current_pos_clear /\ w.m_pos = p) =>
               /\ r.w.m_to_lift = 0
               /\ r.w.m_lifted = 0
               /\ r.w.m_pos = p
               /\ EndsWithMoveTo(r.out, p.z)

\* C17 as stated: travel_to_xyz(p) in the Pending state (pending_lift > 0)
\* with pending_lift + stored Z > p.z and the position unknown or different
\* from p folds the pending lift into the destination; with the position
\* known and equal to p it discards the pending lift
C17_TravelToXyzPendingAsStated ==
    (Selected /\ LiftState(writer) = "Pending") =>
        \A p \in Points3 : FoldsOrDiscards(writer, p)

\* C17 amended: the same of a pending lift above EPSILON
C17_TravelToXyzPending ==
    (Selected /\ LiftState(writer) = "Pending" /\ writer.m_to_lift > EPSILON) =>
        \A p \in Points3 : FoldsOrDiscards(writer, p)

\* travel_to_xyz folded a pending lift: the writer stands above the heights
\* asked for, lifted by at least EPSILON
C17_Witness ==
    /\ last.op = "travel_to_xyz"
    /\ last.pre = "Pending"
    /\ LiftState(writer) = "Lifted"
    /\ writer.m_lifted >= EPSILON
    /\ writer.m_is_current_pos_clear

\* C18: extrude_to_xyz(p, dE) sets lifted to 0 whatever the lift state was,
\* and the stored position to p
C18_ExtrudeToXyzClearsLift ==
    Selected =>
        \A p \in Points3, dE \in {0, 1}, force_no_extrusion \in BOOLEAN :
            LET r == extrude_to_xyz(writer, p, dE, TRUE, force_no_extrusion)
            IN  r.w.m_lifted = 0 /\ r.w.m_pos = p

\* extrude_to_xyz was called on a lifted writer
C18_Witness ==
    /\ last.op = "extrude_to_xyz"
    /\ last.pre = "Lifted"
    /\ writer.m_lifted = 0

\* every acceleration command of the text stands before every motion
\* command of it
AccelerationFirst(out) ==
    \A i, j \in 1..Len(out) :
        (IsAccelerationLine(out[i]) /\ IsMotion(out[j])) => i < j

\* C23: in the text a travel or extrude call returns, in every state, an
\* acceleration command stands before every G1/G2/G3 line
C23_AccelerationPrepended ==
    Selected =>
        /\ \A p \in Points :
               /\ AccelerationFirst(travel_to_xy(writer, p, TRUE).out)
               /\ AccelerationFirst(extrude_to_xy(writer, p, 1, TRUE, FALSE).out)
               /\ \A is_ccw \in BOOLEAN :
                      AccelerationFirst(
                          extrude_arc_to_xy(writer, p, <<1, 0>>, 1, is_ccw, TRUE, FALSE).out)
        /\ \A z \in Heights : AccelerationFirst(travel_to_z(writer, z, TRUE).out)
        /\ \A p \in Points3 :
               /\ AccelerationFirst(extrude_to_xyz(writer, p, 1, TRUE, FALSE).out)
               /\ AccelerationFirst(travel_to_xyz(writer, p, TRUE).out)

\* the line has an argument of that letter, or that very argument
Carries(l, letter) == \E k \in 1..Len(l.args) : l.args[k][1] = letter

HasArg(l, letter, value) == \E k \in 1..Len(l.args) : l.args[k] = <<letter, value>>

\* a is between b and c
Between(a, b, c) == (b <= a /\ a <= c) \/ (c <= a /\ a <= b)

\* the X and Y a call to the point p writes are off the plate offset: a line
\* writes X and Y together; the last one that does writes p less the offset;
\* and any before it (the top of a slope lift) a point between the stored
\* position and p, less the offset
OffsetXY(w, p, out) ==
    /\ \E i \in 1..Len(out) :
           /\ IsMotion(out[i])
           /\ HasArg(out[i], "X", p.x - w.m_x_offset)
           /\ HasArg(out[i], "Y", p.y - w.m_y_offset)
           /\ \A j \in (i + 1)..Len(out) : ~ Carries(out[j], "X") /\ ~ Carries(out[j], "Y")
    /\ \A i \in 1..Len(out) :
           /\ Carries(out[i], "X") <=> Carries(out[i], "Y")
           /\ \A k \in 1..Len(out[i].args) :
                  /\ out[i].args[k][1] = "X" =>
                         Between(out[i].args[k][2] + w.m_x_offset, w.m_pos.x, p.x)
                  /\ out[i].args[k][1] = "Y" =>
                         Between(out[i].args[k][2] + w.m_y_offset, w.m_pos.y, p.y)

\* every Z a call writes is the Z the writer stores after it
PlainZ(r) ==
    \A i \in 1..Len(r.out) :
        \A k \in 1..Len(r.out[i].args) :
            r.out[i].args[k][1] = "Z" => r.out[i].args[k][2] = r.w.m_pos.z

\* C29: travel_to_xy, travel_to_xyz, extrude_to_xy, extrude_to_xyz and
\* extrude_arc_to_xy write X and Y less the plate offset and store the
\* point as it was given; Z is written as it is stored
C29_PlateOffset ==
    Selected =>
        /\ \A p \in Points, force_no_extrusion \in BOOLEAN :
               /\ LET r == travel_to_xy(writer, p, TRUE)
                  IN  /\ OffsetXY(writer, p, r.out) /\ PlainZ(r)
                      /\ r.w.m_pos = [writer.m_pos EXCEPT !.x = p.x, !.y = p.y]
               /\ LET r == extrude_to_xy(writer, p, 1, TRUE, force_no_extrusion)
                  IN  /\ OffsetXY(writer, p, r.out) /\ PlainZ(r)
                      /\ r.w.m_pos = [writer.m_pos EXCEPT !.x = p.x, !.y = p.y]
               /\ \A is_ccw \in BOOLEAN :
                      LET r == extrude_arc_to_xy(writer, p, <<1, 0>>, 1, is_ccw, TRUE,
                                                 force_no_extrusion)
                      IN  /\ OffsetXY(writer, p, r.out) /\ PlainZ(r)
                          /\ r.w.m_pos = [writer.m_pos EXCEPT !.x = p.x, !.y = p.y]
        /\ \A p \in Points3 :
               /\ LET r == extrude_to_xyz(writer, p, 1, TRUE, FALSE)
                  IN  /\ OffsetXY(writer, p, r.out) /\ PlainZ(r)
                      /\ r.w.m_pos = p
               /\ LET r == travel_to_xyz(writer, p, TRUE)
                  IN  /\ OffsetXY(writer, p, r.out) /\ PlainZ(r)
                      /\ r.w.m_pos.x = p.x /\ r.w.m_pos.y = p.y

\* a travel_to_xy was made with a plate offset that is not zero, and the
\* point stored is the one given
C29_Witness ==
    /\ last.op = "travel_to_xy"
    /\ writer.m_x_offset > 0
    /\ writer.m_y_offset > 0
    /\ writer.m_pos.x = 60
    /\ writer.m_pos.y = 10

\* C30: travel_to_xyz(p) on a flat writer whose position is known, with
\* p.z within EPSILON of the stored Z, returns one G1 line, with X, Y and
\* F = travel_speed * 60 and neither Z nor E (after the acceleration command,
\* when the limiter has one to write), and stores the X and Y of p
C30_TravelToXyzSameZ ==
    (Selected /\ LiftState(writer) = "Flat" /\ writer.m_is_current_pos_clear) =>
        \A p \in Points3 :
            Abs(p.z - writer.m_pos.z) < EPSILON =>
                LET r == travel_to_xyz(writer, p, TRUE)
                    n == Len(r.out)
                IN  /\ n >= 1
                    /\ r.out[n] = G1(<< <<"X", p.x - writer.m_x_offset>>,
                                        <<"Y", p.y - writer.m_y_offset>>,
                                        <<"F", config.travel_speed[Cur(writer).extruder_id] * 60>> >>,
                                     TRUE)
                    /\ \A i \in 1..(n - 1) : IsAccelerationLine(r.out[i])
                    /\ r.w.m_pos = [writer.m_pos EXCEPT !.x = p.x, !.y = p.y]

\* travel_to_xyz on a flat writer whose position was known left the stored
\* Z where it was and moved to another X and Y
C30_Witness ==
    /\ last.op = "travel_to_xyz"
    /\ last.pre = "Flat"
    /\ last.clear
    /\ LiftState(writer) = "Flat"
    /\ writer.m_pos.z = last.z
    /\ writer.m_pos.x = 60

\* C34: after travel_to_z(z) and after travel_to_xyz(p), whatever the lift
\* state and whether or not the position is known, the nominal Z (the
\* stored Z less the lift applied) is within EPSILON of the Z asked for
C34_NominalZReached ==
    Selected =>
        /\ \A z \in Heights :
               Abs(Nominal(travel_to_z(writer, z, TRUE).w) - z) < EPSILON
        /\ \A p \in Points3 :
               Abs(Nominal(travel_to_xyz(writer, p, TRUE).w) - p.z) < EPSILON

\* travel_to_xyz was called with a lift pending and folded it: the writer
\* is lifted and its nominal Z is another than the Z it was at
C34_Witness ==
    /\ last.op = "travel_to_xyz"
    /\ last.pre = "Pending"
    /\ writer.m_lifted > 0
    /\ Nominal(writer) # last.z
    /\ Nominal(writer) > 0

\* the text has no line that carries a Z
NoZMove(out) == \A i \in 1..Len(out) : ~ Carries(out[i], "Z")

\* C35: m_lifted and m_to_lift are never negative, and after a travel_to_z
\* or a travel_to_xyz that wrote no Z move m_lifted is 0 or at least EPSILON
C35_LiftAmounts ==
    /\ writer.m_lifted >= 0
    /\ writer.m_to_lift >= 0
    /\ Selected =>
           /\ \A z \in Heights :
                  LET r == travel_to_z(writer, z, TRUE)
                  IN  NoZMove(r.out) => (r.w.m_lifted = 0 \/ r.w.m_lifted >= EPSILON)
           /\ \A p \in Points3 :
                  LET r == travel_to_xyz(writer, p, TRUE)
                  IN  NoZMove(r.out) => (r.w.m_lifted = 0 \/ r.w.m_lifted >= EPSILON)

\* travel_to_z was called on a lifted writer and made no move: what is left
\* of the lift is at least EPSILON
C35_Witness ==
    /\ last.op = "travel_to_z"
    /\ last.pre = "Lifted"
    /\ writer.m_lifted >= EPSILON
    /\ writer.m_to_lift = 0

\* C36: travel_to_xyz called with the position not known writes its XY move
\* before any Z move and never X, Y and Z in one line, and leaves the
\* position known, whether or not a lift is pending and whatever its type
C36_XyBeforeZ ==
    (Selected /\ ~ writer.m_is_current_pos_clear) =>
        \A p \in Points3 :
            LET r == travel_to_xyz(writer, p, TRUE)
            IN  /\ r.w.m_is_current_pos_clear
                /\ \A i \in 1..Len(r.out) :
                       /\ ~ (Carries(r.out[i], "X") /\ Carries(r.out[i], "Z"))
                       /\ Carries(r.out[i], "Z") =>
                              \A j \in (i + 1)..Len(r.out) : ~ Carries(r.out[j], "X")

----------------------------------------------------------------------------
(* Temperatures: specification SpecTemp *)

\* the temperatures and the tool arguments the calls are given
Temperatures == {0, 60, 70}
ToolArgs == {-1, 1}

\* the record of a call: its name, arguments, returned text, what the
\* properties need of the state it was made in, and the call before it when
\* that was a call of the same operation
Call(op, arg, out, pre) ==
    [op |-> op, arg |-> arg, out |-> out, pre |-> pre,
     prev |-> IF last.op = op
              THEN [op |-> last.op, arg |-> last.arg, out |-> last.out, pre |-> last.pre]
              ELSE NoCall]

\* the record of a call without the call before it
CallOnly(op, arg, out, pre) == [op |-> op, arg |-> arg, out |-> out, pre |-> pre]

\* the recorded bed temperature state
BedState(w) ==
    [temperature |-> w.m_last_bed_temperature, reached |-> w.m_last_bed_temperature_reached]

InitTemp ==
    /\ \E flavor \in Flavors : config = MakeConfig(flavor, FALSE, FALSE, 0, 2000)
    /\ \E extruder_ids \in {{0}, {0, 1}} : writer = SetUp(config, extruder_ids)
    /\ last = NoCall
    /\ since_lift = NoLift

SetTemperature ==
    \E temperature \in Temperatures, wait \in BOOLEAN, tool \in ToolArgs :
        /\ last' = Call("set_temperature", <<temperature, wait, tool>>,
                        set_temperature(writer, temperature, wait, tool), BedState(writer))
        /\ UNCHANGED <<config, writer, since_lift>>

SetBedTemperature ==
    \E temperature \in Temperatures, wait \in BOOLEAN :
        LET r == set_bed_temperature(writer, temperature, wait)
        IN  /\ writer' = r.w
            /\ last' = Call("set_bed_temperature", <<temperature, wait>>, r.out,
                            BedState(writer))
            /\ UNCHANGED <<config, since_lift>>

SetChamberTemperature ==
    \E temperature \in Temperatures, wait \in BOOLEAN :
        LET r == set_chamber_temperature(writer, temperature, wait)
        IN  /\ writer' = r.w
            /\ last' = Call("set_chamber_temperature", <<temperature, wait>>, r.out,
                            BedState(writer))
            /\ UNCHANGED <<config, since_lift>>

NextTemp ==
    \/ SetTemperature
    \/ SetBedTemperature
    \/ SetChamberTemperature

SpecTemp == InitTemp /\ [][NextTemp]_vars

\* the last call repeats the call before it: same operation, same arguments
Repeated(op) ==
    last.op = op /\ last.prev.op = op /\ last.prev.arg = last.arg

----------------------------------------------------------------------------
(* Properties of the temperature calls *)

\* C6 as stated: of two identical set_bed_temperature calls in succession the
\* first returns a command whenever T or the wait status differs from what
\* was recorded, the second returns the empty string and leaves the recorded
\* bed temperature state as the first left it
C6_BedTwiceAsStated ==
    Repeated("set_bed_temperature") =>
        /\ (last.prev.pre.temperature # last.arg[1] \/ last.prev.pre.reached # last.arg[2])
               => last.prev.out # << >>
        /\ last.out = << >>
        /\ BedState(writer) = last.pre

\* C6 amended: the first call returns a command exactly when T differs from
\* the recorded temperature, or wait is requested and the recorded temperature
\* is not recorded as reached; the second returns the empty string and leaves
\* the recorded bed temperature state as the first left it
C6_BedTwice ==
    Repeated("set_bed_temperature") =>
        /\ last.prev.out # << >>
               <=> (last.prev.pre.temperature # last.arg[1]
                    \/ (last.arg[2] /\ ~ last.prev.pre.reached))
        /\ last.out = << >>
        /\ BedState(writer) = last.pre

\* a waiting bed request was repeated after a non-waiting one for the same
\* temperature: the first of the two had to be sent for the wait alone
C6_Witness ==
    /\ Repeated("set_bed_temperature")
    /\ last.arg[2]
    /\ last.prev.pre = [temperature |-> last.arg[1], reached |-> FALSE]
    /\ last.prev.out # << >>

\* two set_bed_temperature calls in succession for the same temperature, the
\* first with wait as given and the second with the opposite
Escalates(wait) ==
    /\ last.op = "set_bed_temperature"
    /\ last.prev.op = "set_bed_temperature"
    /\ last.prev.arg[1] = last.arg[1]
    /\ last.prev.arg[2] = wait
    /\ last.arg[2] = ~ wait

\* C38 as stated: set_bed_temperature(T, true) after set_bed_temperature(T,
\* false) returns the M190 command and records T as reached;
\* set_bed_temperature(T, false) after set_bed_temperature(T, true) returns
\* nothing and keeps T recorded as reached
C38_WaitEscalationAsStated ==
    /\ Escalates(FALSE) =>
           /\ last.out = << Line("M190", << <<"S", last.arg[1]>> >>, TRUE) >>
           /\ BedState(writer) = [temperature |-> last.arg[1], reached |-> TRUE]
    /\ Escalates(TRUE) =>
           /\ last.out = << >>
           /\ BedState(writer) = [temperature |-> last.arg[1], reached |-> TRUE]

\* C38 amended: set_bed_temperature(T, true) after set_bed_temperature(T,
\* false) returns the M190 command unless T was recorded as reached before
\* the first of the two, when both return nothing; T is recorded as reached
\* after it either way.  set_bed_temperature(T, false) after
\* set_bed_temperature(T, true) returns nothing and keeps T recorded as
\* reached
C38_WaitEscalation ==
    /\ Escalates(FALSE) =>
           /\ IF last.prev.pre = [temperature |-> last.arg[1], reached |-> TRUE]
              THEN last.prev.out = << >> /\ last.out = << >>
              ELSE last.out = << Line("M190", << <<"S", last.arg[1]>> >>, TRUE) >>
           /\ BedState(writer) = [temperature |-> last.arg[1], reached |-> TRUE]
    /\ Escalates(TRUE) =>
           /\ last.out = << >>
           /\ last.pre = [temperature |-> last.arg[1], reached |-> TRUE]
           /\ BedState(writer) = last.pre

\* a waiting request followed a non-waiting one for another temperature
\* than the recorded one: M140 was returned, then M190
C38_Witness ==
    /\ Escalates(FALSE)
    /\ last.prev.pre.temperature # last.arg[1]
    /\ last.prev.out = << Line("M140", << <<"S", last.arg[1]>> >>, TRUE) >>
    /\ last.out = << Line("M190", << <<"S", last.arg[1]>> >>, TRUE) >>
    /\ writer.m_last_bed_temperature_reached

C8_ChamberTwice ==
    Repeated("set_chamber_temperature") => last.out = << >>

\* C24: with full_gcode_comment false no text a writer operation returns
\* holds a comment
C24_NoComments ==
    (~ full_gcode_comment /\ last.op # "none") =>
        \A i \in 1..Len(last.out) : ~ last.out[i].cmt

----------------------------------------------------------------------------
(* Tool selection: specification SpecTool *)

\* the cumulative E of a tool stays within MaxE in the runs explored
MaxE == 2

\* the tool sets set_extruders is given
ToolSets == {{0}, {1}, {0, 1, 2}}

\* the id of the selected filament, NoExtruder when none is
CurrentId(w) == IF filament(w) = nullptr THEN NoExtruder ELSE Cur(w).id

\* the tracker of the selected tool, as the properties of E and of
\* retraction need it
TrackerState(w) ==
    IF filament(w) = nullptr THEN [id |-> NoExtruder] ELSE Cur(w)

InitTool ==
    /\ \E flavor \in Flavors, relative_e \in BOOLEAN :
           config = MakeConfig(flavor, relative_e, FALSE, 0, 2000)
    /\ \E extruder_ids \in ToolSets, is_bbl_printer \in BOOLEAN :
           writer = [SetUp(config, extruder_ids) EXCEPT !.m_is_bbl_printer = is_bbl_printer]
    /\ last = NoCall
    /\ since_lift = NoLift

ToolInitExtruder ==
    \E filament_id \in FilamentIds :
        /\ IsConfigured(writer, filament_id)
        /\ writer' = init_extruder(writer, filament_id)
        /\ last' = CallOnly("init_extruder", filament_id, << >>, CurrentId(writer))
        /\ UNCHANGED <<config, since_lift>>

ToolSetExtruder ==
    \E filament_id \in FilamentIds :
        /\ IsConfigured(writer, filament_id)
        /\ LET r == set_extruder(writer, filament_id)
           IN  /\ writer' = r.w
               /\ last' = CallOnly("set_extruder", filament_id, r.out, CurrentId(writer))
        /\ UNCHANGED <<config, since_lift>>

ToolToolchange ==
    \E filament_id \in FilamentIds :
        /\ IsConfigured(writer, filament_id)
        /\ LET r == toolchange(writer, filament_id)
           IN  /\ writer' = r.w
               /\ last' = CallOnly("toolchange", filament_id, r.out, CurrentId(writer))
        /\ UNCHANGED <<config, since_lift>>

ToolExtrudeToXy ==
    \E force_no_extrusion \in BOOLEAN :
        /\ filament(writer) # nullptr
        /\ Cur(writer).E < MaxE
        /\ LET r == extrude_to_xy(writer, [x |-> 60, y |-> 10], 1, FALSE, force_no_extrusion)
           IN  /\ writer' = r.w
               /\ last' = CallOnly("extrude_to_xy", force_no_extrusion, r.out,
                                   TrackerState(writer))
        /\ UNCHANGED <<config, since_lift>>

ToolResetE ==
    \E force \in BOOLEAN :
        /\ LET r == reset_e(writer, force)
           IN  /\ writer' = r.w
               /\ last' = CallOnly("reset_e", force, r.out, TrackerState(writer))
        /\ UNCHANGED <<config, since_lift>>

NextTool ==
    \/ ToolInitExtruder
    \/ ToolSetExtruder
    \/ ToolToolchange
    \/ ToolExtrudeToXy
    \/ ToolResetE

SpecTool == InitTool /\ [][NextTool]_vars

----------------------------------------------------------------------------
(* Properties of tool selection *)

\* C3 as stated: set_extruder(t) returns a toolchange command if and only if
\* t differs from the tool selected before the call (no selection counts as
\* different), and t is the selected tool after the call
C3_SetExtruderAsStated ==
    last.op = "set_extruder" =>
        /\ last.out # << >> <=> last.pre # last.arg
        /\ CurrentId(writer) = last.arg

\* C3 amended: set_extruder(t) returns a toolchange command if and only if
\* t differs from the tool selected before the call (no selection counts as
\* different) and the writer was set up with multiple extruders (some
\* configured tool id above 0); t is the selected tool after the call
C3_SetExtruder ==
    last.op = "set_extruder" =>
        /\ last.out # << >> <=> (last.pre # last.arg /\ writer.multiple_extruders)
        /\ CurrentId(writer) = last.arg

\* set_extruder changed from one selected tool to another and said so
C3_Witness ==
    /\ last.op = "set_extruder"
    /\ last.pre # NoExtruder
    /\ last.pre # last.arg
    /\ last.out # << >>
    /\ CurrentId(writer) = last.arg

\* the tracker of a configured filament
TrackerOf(w, filament_id) == w.m_filament_extruders[lower_bound_by_id(w, filament_id)]

Selection(w) == <<w.m_curr_extruder_id, w.m_curr_filament_extruder>>

\* what an extrude_* call of dE does to the selected tool's E and writes of
\* it: with force_no_extrusion nothing, and no E fragment; without it E grows
\* by dE and the last line, the move, carries the new E
ExtrudesAsAsked(r, dE, force_no_extrusion) ==
    LET move == r.out[Len(r.out)]
    IN  /\ r.out # << >>
        /\ IF force_no_extrusion
           THEN /\ r.w.m_filament_extruders = writer.m_filament_extruders
                /\ \A i \in 1..Len(r.out) : ~ Carries(r.out[i], "E")
           ELSE /\ r.w = WithCur(r.w, [Cur(writer) EXCEPT !.E = Cur(writer).E + dE])
                /\ HasArg(move, "E", Cur(writer).E + dE)

\* C32: extrude_to_xy, extrude_to_xyz and extrude_arc_to_xy store the point
\* they are given; with force_no_extrusion they leave every tool's E as it
\* was and write no E fragment, and without it the selected tool's E grows
\* by dE and the move carries the new E
C32_ForceNoExtrusion ==
    Selected =>
        \A force_no_extrusion \in BOOLEAN :
            /\ \A p \in Points, dE \in {1, 2} :
                   LET r == extrude_to_xy(writer, p, dE, TRUE, force_no_extrusion)
                   IN  /\ ExtrudesAsAsked(r, dE, force_no_extrusion)
                       /\ r.w.m_pos = [writer.m_pos EXCEPT !.x = p.x, !.y = p.y]
            /\ \A p \in Points, is_ccw \in BOOLEAN :
                   LET r == extrude_arc_to_xy(writer, p, <<1, 0>>, 1, is_ccw, TRUE,
                                              force_no_extrusion)
                   IN  /\ ExtrudesAsAsked(r, 1, force_no_extrusion)
                       /\ r.w.m_pos = [writer.m_pos EXCEPT !.x = p.x, !.y = p.y]
            /\ \A p \in Points3 :
                   LET r == extrude_to_xyz(writer, p, 1, TRUE, force_no_extrusion)
                   IN  /\ ExtrudesAsAsked(r, 1, force_no_extrusion)
                       /\ r.w.m_pos = p

\* extrude_to_xy with force_no_extrusion was called on a tool that had
\* extruded: it stored the point, left E as it was and wrote no E
C32_Witness ==
    /\ last.op = "extrude_to_xy"
    /\ last.arg
    /\ last.pre.E > 0
    /\ Cur(writer).E = last.pre.E
    /\ writer.m_pos.x = 60
    /\ \A i \in 1..Len(last.out) : ~ Carries(last.out[i], "E")

\* C39: multiple_extruders is true exactly when the largest configured id
\* is above 0; when it is false, toolchange(t) returns the empty string,
\* leaves the E of every tool as it was and records t as the selected tool
C39_SingleExtruder ==
    /\ writer.multiple_extruders <=> MaxId(ConfiguredIds(writer)) > 0
    /\ ~ writer.multiple_extruders =>
           \A filament_id \in FilamentIds :
               IsConfigured(writer, filament_id) =>
                   LET r == toolchange(writer, filament_id)
                   IN  /\ r.out = << >>
                       /\ r.w.m_filament_extruders = writer.m_filament_extruders
                       /\ CurrentId(r.w) = filament_id

\* toolchange(0) was called in a single-extruder setup on a tool that had
\* extruded: it returned nothing and the tool's E is still above 0
C39_Witness ==
    /\ last.op = "toolchange"
    /\ ~ writer.multiple_extruders
    /\ last.pre = 0
    /\ last.arg = 0
    /\ last.out = << >>
    /\ CurrentId(writer) = 0
    /\ Cur(writer).E > 0

----------------------------------------------------------------------------
(* Retraction: specification SpecRetract *)

InitRetract ==
    /\ \E flavor \in Flavors, firmware_retraction \in BOOLEAN :
           config = MakeConfig(flavor, FALSE, firmware_retraction, 0, 2000)
    /\ \E extruder_ids \in {{0}, {1, 2}} : writer = SetUp(config, extruder_ids)
    /\ last = NoCall
    /\ since_lift = NoLift

RetractToolchange ==
    \E filament_id \in FilamentIds :
        /\ IsConfigured(writer, filament_id)
        /\ LET r == toolchange(writer, filament_id)
           IN  /\ writer' = r.w
               /\ last' = Call("toolchange", filament_id, r.out, TrackerState(writer))
        /\ UNCHANGED <<config, since_lift>>

Retract ==
    \E before_wipe \in BOOLEAN :
        /\ filament(writer) # nullptr
        /\ LET r == retract(writer, before_wipe)
           IN  /\ writer' = r.w
               /\ last' = Call("retract", before_wipe, r.out, TrackerState(writer))
        /\ UNCHANGED <<config, since_lift>>

RetractForToolchange ==
    \E before_wipe \in BOOLEAN :
        /\ filament(writer) # nullptr
        /\ LET r == retract_for_toolchange(writer, before_wipe)
           IN  /\ writer' = r.w
               /\ last' = Call("retract_for_toolchange", before_wipe, r.out,
                               TrackerState(writer))
        /\ UNCHANGED <<config, since_lift>>

Unretract ==
    /\ filament(writer) # nullptr
    /\ Cur(writer).E + Cur(writer).retracted + Cur(writer).restart_extra <= MaxE
    /\ LET r == unretract(writer)
       IN  /\ writer' = r.w
           /\ last' = Call("unretract", << >>, r.out, TrackerState(writer))
    /\ UNCHANGED <<config, since_lift>>

RetractExtrudeToXy ==
    /\ filament(writer) # nullptr
    /\ Cur(writer).E < MaxE
    /\ LET r == extrude_to_xy(writer, [x |-> 60, y |-> 10], 1, FALSE, FALSE)
       IN  /\ writer' = r.w
           /\ last' = Call("extrude_to_xy", 1, r.out, TrackerState(writer))
    /\ UNCHANGED <<config, since_lift>>

NextRetract ==
    \/ RetractToolchange
    \/ Retract
    \/ RetractForToolchange
    \/ Unretract
    \/ RetractExtrudeToXy

SpecRetract == InitRetract /\ [][NextRetract]_vars

----------------------------------------------------------------------------
(* Properties of retraction *)

\* the text holds a retraction command: a G1 move of E, or G10 / G22
HasRetraction(out) ==
    \E i \in 1..Len(out) : out[i].cmd \in {"G1", "G10", "G22"}

\* the length retract asks the tracker for
RequestedRetraction(e, before_wipe) ==
    IF config.use_firmware_retraction THEN 1
    ELSE Scaled(before_wipe, e.id, config.retraction_length[e.id])

\* C4 as stated: of two retract calls in succession, in every dialect and
\* retraction mode, the first returns a command and the second the empty
\* string
C4_RetractTwiceAsStated ==
    Repeated("retract") =>
        last.prev.out # << >> /\ last.out = << >>

\* C4 amended: of two retract calls in succession the second applies no
\* delta and returns no retraction command: its text is empty, but for the
\* "M103 ; extruder off" line every retract call ends with in the MakerWare
\* dialect; the first returns a retraction command exactly when the tool was
\* retracted by less than the length asked for
C4_RetractTwice ==
    Repeated("retract") =>
        /\ ~ HasRetraction(last.out)
        /\ last.out = IF config.gcode_flavor = "gcfMakerWare"
                      THEN << Line("M103", << >>, TRUE) >> ELSE << >>
        /\ Cur(writer) = last.pre
        /\ HasRetraction(last.prev.out)
               <=> last.prev.pre.retracted < RequestedRetraction(last.prev.pre, last.arg)

\* retract was repeated on a tool that was not retracted: the first call
\* returned the retraction command
C4_Witness ==
    /\ Repeated("retract")
    /\ last.prev.pre.retracted = 0
    /\ HasRetraction(last.prev.out)
    /\ ~ HasRetraction(last.out)

\* the text holds an unretraction command: a G1 move of E, or G11 / G23
HasUnretraction(out) ==
    \E i \in 1..Len(out) : out[i].cmd \in {"G1", "G11", "G23"}

\* C22 as stated: unretract on a retracted tool leaves it not retracted with
\* E at its value before the retraction plus the restart extra recorded;
\* unretract on a tool that is not retracted changes nothing and returns no
\* extrusion command
C22_UnretractAsStated ==
    filament(writer) # nullptr =>
        LET r == unretract(writer)
            e == Cur(writer)
        IN  /\ e.retracted > 0 =>
                   /\ Cur(r.w).retracted = 0
                   /\ Cur(r.w).E = e.E + e.retracted + e.restart_extra
            /\ e.retracted = 0 => (r.w = writer /\ ~ HasUnretraction(r.out))

\* C22 amended: unretract on a retracted tool leaves it not retracted; E is
\* its value before the retraction plus the restart extra recorded, but with
\* firmware retraction, where unretract goes on to reset E, which leaves E at
\* 0 in every dialect other than Mach3, MakerWare and Sailfish.  Right after
\* a retract of a tool that was not retracted, the value before the
\* retraction is the E that call found.  unretract on a tool that is not
\* retracted changes nothing and returns no extrusion command
C22_Unretract ==
    filament(writer) # nullptr =>
        LET r == unretract(writer)
            e == Cur(writer)
            resets == /\ config.use_firmware_retraction
                      /\ config.gcode_flavor \notin {"gcfMach3", "gcfMakerWare", "gcfSailfish"}
        IN  /\ e.retracted > 0 =>
                   /\ Cur(r.w).retracted = 0
                   /\ Cur(r.w).E = IF resets THEN 0
                                   ELSE e.E + e.retracted + e.restart_extra
                   /\ HasUnretraction(r.out)
            /\ (last.op \in {"retract", "retract_for_toolchange"}
                /\ last.pre.retracted = 0 /\ e.retracted > 0) =>
                   e.E + e.retracted = last.pre.E
            /\ e.retracted = 0 => (r.w = writer /\ ~ HasUnretraction(r.out))

\* unretract after a firmware retraction reset an E that had come back
\* above 0
C22_Witness ==
    /\ last.op = "unretract"
    /\ last.pre.retracted > 0
    /\ config.use_firmware_retraction
    /\ last.pre.E + last.pre.retracted + last.pre.restart_extra > 0
    /\ Cur(writer).E = 0
    /\ Cur(writer).retracted = 0

\* C25: every text a writer operation returns that is not empty is made
\* of lines that end with a newline, the last one included
C25_NewlineTerminated ==
    last.op # "none" =>
        \A i \in 1..Len(last.out) : last.out[i].nl

----------------------------------------------------------------------------
(* Kinematic limiter: specification SpecAccel *)

\* the accelerations the setters are given
Accelerations == {0, 1000, 3000}
TravelAccelerations == {<< >>, <<1000, 4000>>}

\* no limiter request: a request is <<acceleration>>, none is << >>
NoRequest == << >>

\* the acceleration a call asks set_acceleration_impl for, NoRequest when the
\* call returns before asking
ExtrudeRequest(w) == <<w.m_acceleration>>

TravelRequest(w) ==
    LET travel_accelerations ==
            IF w.m_is_first_layer THEN w.m_first_layer_travel_accelerations
            ELSE w.m_travel_accelerations
    IN  IF travel_accelerations = << >> \/ filament(w) = nullptr THEN NoRequest
        ELSE <<travel_accelerations[Cur(w).extruder_id + 1]>>

\* the acceleration the text sets, read off its M201, M202 or M204 line;
\* NoRequest when it has none
CarriedAcceleration(out) ==
    LET sets == {i \in 1..Len(out) : out[i].cmd \in {"M201", "M202", "M204"}}
    IN  IF sets = {} THEN NoRequest
        ELSE <<out[CHOOSE i \in sets : TRUE].args[1][2]>>

\* the record of a call in this specification: its name and text, the
\* acceleration it asked the limiter for, the clamped value of the limiter
\* request before it (before) and of the latest one (latest), both NoRequest
\* when there is none since the last reset; and, when a reset came before
\* the call with no request in between, the m_last_acceleration that reset
\* cleared (cleared), NoRequest otherwise; and the acceleration set by the
\* latest text that set one (emitted), NoRequest when there is none since the
\* last reset
AccelCall(op, out, request, reset) ==
    [op |-> op, out |-> out, request |-> request,
     emitted |-> IF CarriedAcceleration(out) # NoRequest THEN CarriedAcceleration(out)
                 ELSE IF reset \/ last.op = "none" THEN NoRequest
                 ELSE last.emitted,
     cleared |-> IF last.op # "none" /\ last.request = NoRequest /\ last.cleared # NoRequest
                 THEN last.cleared
                 ELSE IF reset THEN <<writer.m_last_acceleration>>
                 ELSE NoRequest,
     before |-> IF last.op = "none" THEN NoRequest ELSE last.latest,
     latest |-> IF request # NoRequest THEN <<ClampAcceleration(writer, request[1])>>
                ELSE IF reset \/ last.op = "none" THEN NoRequest
                ELSE last.latest]

InitAccel ==
    /\ \E flavor \in Flavors, enable \in BOOLEAN, factor \in {50, 100} :
           config = [MakeConfig(flavor, FALSE, FALSE, 0, 2000) EXCEPT
                         !.accel_to_decel_enable = enable,
                         !.accel_to_decel_factor = factor]
    /\ writer = set_first_layer_travel_acceleration(SetUp(config, {0, 1}), <<500, 2000>>)
    /\ last = NoCall
    /\ since_lift = NoLift

AccelToolchange ==
    \E filament_id \in {0, 1} :
        /\ LET r == toolchange(writer, filament_id)
           IN  /\ writer' = r.w
               /\ last' = AccelCall("toolchange", r.out, NoRequest, FALSE)
        /\ UNCHANGED <<config, since_lift>>

SetAcceleration ==
    \E acceleration \in Accelerations :
        /\ writer' = set_acceleration(writer, acceleration)
        /\ last' = AccelCall("set_acceleration", << >>, NoRequest, FALSE)
        /\ UNCHANGED <<config, since_lift>>

SetTravelAccelerationValues ==
    \E accelerations \in TravelAccelerations :
        /\ writer' = set_travel_acceleration_values(writer, accelerations)
        /\ last' = AccelCall("set_travel_acceleration_values", << >>, NoRequest, FALSE)
        /\ UNCHANGED <<config, since_lift>>

SetFirstLayer ==
    \E is_first_layer \in BOOLEAN :
        /\ writer' = set_first_layer(writer, is_first_layer)
        /\ last' = AccelCall("set_first_layer", << >>, NoRequest, FALSE)
        /\ UNCHANGED <<config, since_lift>>

ResetLastAcceleration ==
    /\ writer' = reset_last_acceleration(writer)
    /\ last' = AccelCall("reset_last_acceleration", << >>, NoRequest, TRUE)
    /\ UNCHANGED <<config, since_lift>>

SetExtrudeAcceleration ==
    /\ LET r == set_extrude_acceleration(writer)
       IN  /\ writer' = r.w
           /\ last' = AccelCall("set_extrude_acceleration", r.out,
                                ExtrudeRequest(writer), FALSE)
    /\ UNCHANGED <<config, since_lift>>

SetTravelAcceleration ==
    /\ LET r == set_travel_acceleration(writer)
       IN  /\ writer' = r.w
           /\ last' = AccelCall("set_travel_acceleration", r.out,
                                TravelRequest(writer), FALSE)
    /\ UNCHANGED <<config, since_lift>>

NextAccel ==
    \/ AccelToolchange
    \/ SetAcceleration
    \/ SetTravelAccelerationValues
    \/ SetFirstLayer
    \/ ResetLastAcceleration
    \/ SetExtrudeAcceleration
    \/ SetTravelAcceleration

SpecAccel == InitAccel /\ [][NextAccel]_vars

----------------------------------------------------------------------------
(* Properties of the kinematic limiter *)

\* C5: with a maximum M > 0, every number in an acceleration command a
\* request returns is at most M; and a request whose clamped value equals
\* that of the request before it, with no reset in between, returns no
\* command
C5_AccelerationClamp ==
    last.op \in {"set_extrude_acceleration", "set_travel_acceleration"} =>
        /\ writer.m_max_acceleration > 0 =>
               \A i \in 1..Len(last.out) :
                   IsAccelerationLine(last.out[i]) =>
                       \A k \in 1..Len(last.out[i].args) :
                           last.out[i].args[k][2] <= writer.m_max_acceleration
        /\ (last.request # NoRequest
            /\ last.before = <<ClampAcceleration(writer, last.request[1])>>)
               => last.out = << >>

\* a request above the maximum followed a different request that was clamped
\* to the same value, and returned nothing
C5_Witness ==
    /\ last.op = "set_extrude_acceleration"
    /\ writer.m_max_acceleration > 0
    /\ last.request[1] > writer.m_max_acceleration
    /\ last.before = <<writer.m_max_acceleration>>
    /\ writer.m_last_acceleration = writer.m_max_acceleration
    /\ last.out = << >>

\* the text holds an acceleration command that carries the value
EmitsAcceleration(out, acceleration) ==
    \E i \in 1..Len(out) :
        /\ IsAccelerationLine(out[i])
        /\ \E k \in 1..Len(out[i].args) : out[i].args[k][2] = acceleration

\* C19 as stated: the first request that reaches the limiter after
\* reset_last_acceleration returns an acceleration command, whatever its
\* value
C19_EmittedAfterResetAsStated ==
    (last.op \in {"set_extrude_acceleration", "set_travel_acceleration"}
     /\ last.request # NoRequest /\ last.cleared # NoRequest) =>
        last.out # << >>

\* C19 amended: the first request that reaches the limiter after
\* reset_last_acceleration returns a command carrying its clamped value
\* whenever that value is not 0, even when it is the value the reset cleared
C19_EmittedAfterReset ==
    (last.op \in {"set_extrude_acceleration", "set_travel_acceleration"}
     /\ last.request # NoRequest /\ last.cleared # NoRequest
     /\ ClampAcceleration(writer, last.request[1]) # 0) =>
        /\ EmitsAcceleration(last.out, ClampAcceleration(writer, last.request[1]))
        /\ writer.m_last_acceleration = ClampAcceleration(writer, last.request[1])

\* the value a reset cleared was requested again and returned a command
C19_Witness ==
    /\ last.op \in {"set_extrude_acceleration", "set_travel_acceleration"}
    /\ last.request # NoRequest
    /\ last.cleared = <<ClampAcceleration(writer, last.request[1])>>
    /\ last.cleared # <<0>>
    /\ last.out # << >>

\* what a request for the acceleration does to a writer: a command carrying
\* the clamped value, recorded as the last one, when that value is neither 0
\* nor the last one; nothing otherwise
LimitsTo(r, acceleration) ==
    LET acc == ClampAcceleration(writer, acceleration)
    IN  IF acc # 0 /\ acc # writer.m_last_acceleration
        THEN /\ EmitsAcceleration(r.out, acc)
             /\ r.w = [writer EXCEPT !.m_last_acceleration = acc]
        ELSE r = [w |-> writer, out |-> << >>]

\* C40: m_last_acceleration is the acceleration set by the latest command
\* returned, by an extrude or a travel request alike, 0 when there is none
\* since the last reset_last_acceleration; an extrude request and a travel
\* request both return a command whenever their clamped value is neither 0
\* nor m_last_acceleration; the travel request reads the first-layer table
\* when m_is_first_layer is set and the other table when not, at the
\* physical extruder of the selected tool, and returns and records nothing
\* when the table is empty or no tool is selected
C40_SharedLastAcceleration ==
    /\ last.op # "none" =>
           writer.m_last_acceleration =
               IF last.emitted = NoRequest THEN 0 ELSE last.emitted[1]
    /\ last.op = "none" => writer.m_last_acceleration = 0
    /\ LimitsTo(set_extrude_acceleration(writer), writer.m_acceleration)
    /\ LET table == IF writer.m_is_first_layer
                    THEN writer.m_first_layer_travel_accelerations
                    ELSE writer.m_travel_accelerations
           r == set_travel_acceleration(writer)
       IN  IF table = << >> \/ filament(writer) = nullptr
           THEN r = [w |-> writer, out |-> << >>]
           ELSE LimitsTo(r, table[Cur(writer).extruder_id + 1])

\* a travel request on the first layer followed an extrude request for
\* 3000: it returned a command for the first-layer value of the selected
\* tool's extruder, which is now the last acceleration
C40_Witness ==
    /\ last.op = "set_travel_acceleration"
    /\ last.before = <<3000>>
    /\ filament(writer) # nullptr
    /\ writer.m_is_first_layer
    /\ last.request = <<writer.m_first_layer_travel_accelerations[Cur(writer).extruder_id + 1]>>
    /\ writer.m_travel_accelerations # << >>
    /\ last.request # <<writer.m_travel_accelerations[Cur(writer).extruder_id + 1]>>
    /\ last.emitted = last.request
    /\ writer.m_last_acceleration = last.request[1]

----------------------------------------------------------------------------
(* Jerk: specification SpecJerk *)

\* the jerks set_jerk_xy is given: around the 0.01 mm/s threshold, within
\* and beyond EPSILON of 8 mm/s, and around and above the maxima; all of
\* them numbers the stream prints in full
Jerks ==
    {0, JerkThreshold - 1, JerkThreshold,
     8 * JerkPerMm, 8 * JerkPerMm + 1, 8 * JerkPerMm + EPSILON,
     9 * JerkPerMm, 9 * JerkPerMm + 1, 12 * JerkPerMm}

\* the machine_max_jerk_x of the configurations, in mm/s
MaxJerks == {0, 9}

InitJerk ==
    /\ \E flavor \in Flavors, machine_max_jerk_x \in MaxJerks :
           config = [MakeConfig(flavor, FALSE, FALSE, 0, 2000) EXCEPT
                         !.machine_max_jerk_x = machine_max_jerk_x]
    /\ writer = SetUp(config, {0})
    /\ last = NoCall
    /\ since_lift = NoLift

SetJerkXy ==
    \E jerk \in Jerks :
        /\ LET r == set_jerk_xy(writer, jerk)
           IN  /\ writer' = r.w
               /\ last' = Call("set_jerk_xy", jerk, r.out, writer.m_last_jerk)
        /\ UNCHANGED <<config, since_lift>>

NextJerk == SetJerkXy

SpecJerk == InitJerk /\ [][NextJerk]_vars

----------------------------------------------------------------------------
(* Properties of the jerk limiter *)

\* the one jerk command of the dialect carrying the value
IsJerkCommand(l, jerk) ==
    IF config.gcode_flavor = "gcfKlipper"
    THEN l.cmd = "SET_VELOCITY_LIMIT" /\ l.args = << <<"SQUARE_CORNER_VELOCITY", jerk>> >>
    ELSE l.cmd = "M205" /\ l.args = << <<"X", jerk>>, <<"Y", jerk>> >>

\* C20: set_jerk_xy(j) clamps j to the maximum jerk when that is above 0;
\* it returns nothing and leaves the last-emitted jerk as it was when the
\* clamped value is below 0.01 or within EPSILON of the last-emitted jerk;
\* otherwise it returns exactly one jerk command carrying the clamped value
\* and records it; the second of two calls in a row with the same value
\* returns nothing
C20_SetJerkXy ==
    last.op = "set_jerk_xy" =>
        LET max == writer.m_max_jerk * JerkPerMm
            clamped == IF max > 0 /\ last.arg > max THEN max ELSE last.arg
        IN  /\ IF clamped < JerkThreshold \/ Abs(clamped - last.pre) < EPSILON
               THEN last.out = << >> /\ writer.m_last_jerk = last.pre
               ELSE /\ Len(last.out) = 1
                    /\ IsJerkCommand(last.out[1], clamped)
                    /\ writer.m_last_jerk = clamped
            /\ (Repeated("set_jerk_xy") /\ last.prev.arg = last.arg) => last.out = << >>

\* a jerk above the maximum was clamped, written and recorded
C20_Witness ==
    /\ last.op = "set_jerk_xy"
    /\ writer.m_max_jerk > 0
    /\ last.arg > writer.m_max_jerk * JerkPerMm
    /\ last.out # << >>
    /\ writer.m_last_jerk = writer.m_max_jerk * JerkPerMm

----------------------------------------------------------------------------
(* Numeric formatter: specification SpecFormat *)

\* the values emit_axis is given, as v * pow_10[digits]: a sign, a whole
\* part (zero, one digit, trailing zeros, all nines, the widest the integers
\* of the checker hold) and quarters (none, below, at and above the half)
Wholes ==
    {0, 1, 5, 9, 10, 99, 100, 105, 1000, 1500, 99999, 100000, 123456789,
     999999999, 1000000000, 2000000000}

ScaledValues ==
    [neg : BOOLEAN, whole : Wholes, quarters : 0..3]

DigitCounts == 0..9

\* the arguments of the call to come are drawn at the start
InitFormat ==
    /\ config = MakeConfig("gcfMarlinFirmware", FALSE, FALSE, 0, 2000)
    /\ writer = Constructed
    /\ \E scaled \in ScaledValues, digits \in DigitCounts :
           last = [op |-> "none", axis |-> "X", scaled |-> scaled, digits |-> digits]
    /\ since_lift = NoLift

EmitAxis ==
    /\ last.op = "none"
    /\ last' = [op |-> "emit_axis", axis |-> last.axis, scaled |-> last.scaled,
                digits |-> last.digits,
                out |-> emit_axis(last.axis, last.scaled, last.digits)]
    /\ UNCHANGED <<config, writer, since_lift>>

NextFormat == EmitAxis

SpecFormat == InitFormat /\ [][NextFormat]_vars

----------------------------------------------------------------------------
(* Properties of the numeric formatter *)

\* the mantissa of an emit_axis fragment: what follows " " and the axis
Mantissa(out) == SubSeq(out, 3, Len(out))

RECURSIVE DecimalValue(_)
DecimalValue(chars) ==
    IF chars = << >> THEN 0
    ELSE DecimalValue(SubSeq(chars, 1, Len(chars) - 1)) * 10
         + (CHOOSE k \in 0..9 : DigitChars[k + 1] = chars[Len(chars)])

\* the characters of a mantissa without its sign
Unsigned(text) == IF text # << >> /\ text[1] = "-" THEN Tail(text) ELSE text

\* where the decimal point of an unsigned mantissa is, its length + 1 when
\* it has none
PointOf(body) ==
    IF \E i \in 1..Len(body) : body[i] = "."
    THEN CHOOSE i \in 1..Len(body) : body[i] = "."
    ELSE Len(body) + 1

IntegerPart(text) == SubSeq(Unsigned(text), 1, PointOf(Unsigned(text)) - 1)

FractionalPart(text) ==
    SubSeq(Unsigned(text), PointOf(Unsigned(text)) + 1, Len(Unsigned(text)))

\* a mantissa read back as a decimal number, times pow_10[digits]
ParseMantissa(text, digits) ==
    LET magnitude == DecimalValue(IntegerPart(text)) * pow_10(digits)
                     + DecimalValue(FractionalPart(text))
                       * pow_10(digits - Len(FractionalPart(text)))
    IN  IF text[1] = "-" THEN - magnitude ELSE magnitude

C28_Mantissa ==
    last.op = "emit_axis" =>
        LET text == Mantissa(last.out)
            v_int == Round(last.scaled)
            integer == (IF v_int < 0 THEN - v_int ELSE v_int) \div pow_10(last.digits)
        IN  /\ text # << >>
            /\ text # << "-" >>
            /\ text[Len(text)] # "."
            /\ (\E i \in 1..Len(text) : text[i] = ".") => text[Len(text)] # "0"
            /\ v_int = 0 => text = << "0" >>
            /\ integer # 0 => IntegerPart(text) = to_chars(integer)

\* 10.004 written with two digits: the zeros of the fraction and the point
\* are trimmed, the zero of the integer part stays
C28_Witness ==
    /\ last.op = "emit_axis"
    /\ last.digits = 2
    /\ last.scaled = [neg |-> FALSE, whole |-> 1000, quarters |-> 1]
    /\ Mantissa(last.out) = << "1", "0" >>

----------------------------------------------------------------------------
(* Fan: specification SpecFan *)

\* the fan speeds set_fan is given, in percent
FanSpeeds == {0, 1, 10, 25, 50, 75, 99, 100}

InitFan ==
    /\ \E flavor \in Flavors : config = MakeConfig(flavor, FALSE, FALSE, 0, 2000)
    /\ writer = SetUp(config, {0})
    /\ last = NoCall
    /\ since_lift = NoLift

SetFan ==
    \E speed \in FanSpeeds :
        /\ last' = CallOnly("set_fan", speed, set_fan(config.gcode_flavor, speed), << >>)
        /\ UNCHANGED <<config, writer, since_lift>>

NextFan == SetFan

SpecFan == InitFan /\ [][NextFan]_vars

----------------------------------------------------------------------------
(* Properties of the fan *)

\* C26 as stated: set_fan(0) returns the empty string in every dialect
C26_ZeroFanAsStated ==
    (last.op = "set_fan" /\ last.arg = 0) => last.out = << >>

\* C26 amended: set_fan(0) returns one line, the command that turns the
\* fan off: M127 in the MakerWare and Sailfish dialects, M106 S0 in the
\* others
C26_ZeroFan ==
    (last.op = "set_fan" /\ last.arg = 0) =>
        /\ Len(last.out) = 1
        /\ last.out[1].nl
        /\ IF config.gcode_flavor \in {"gcfMakerWare", "gcfSailfish"}
           THEN last.out[1].cmd = "M127" /\ last.out[1].args = << >>
           ELSE last.out[1].cmd = "M106" /\ last.out[1].args = << <<"S", 0>> >>

\* set_fan(0) in the Sailfish dialect returned M127
C26_Witness ==
    /\ last.op = "set_fan"
    /\ last.arg = 0
    /\ config.gcode_flavor = "gcfSailfish"
    /\ last.out # << >>
    /\ last.out[1].cmd = "M127"
----------------------------------------------------------------------------
(* Feedrate: specification SpecSpeed *)

\* the feedrates set_speed is given: negative, zero, ordinary, and around the
\* upper limit of the second assertion
Speeds == {-60, 0, 1, 1800, 3600, 99999, 100000}

\* the build is fixed with the configuration: NDEBUG tells whether it was
\* compiled with assertions off
InitSpeed ==
    /\ \E NDEBUG \in BOOLEAN, flavor \in {"gcfMarlinFirmware", "gcfKlipper", "gcfSailfish"} :
           config = [NDEBUG |-> NDEBUG] @@ MakeConfig(flavor, FALSE, FALSE, 0, 2000)
    /\ writer = SetUp(config, {0})
    /\ last = NoCall
    /\ since_lift = NoLift

\* no call follows one that ended the program
SetSpeed ==
    \E F \in Speeds :
        /\ last.op = "set_speed" => ~ last.aborted
        /\ LET r == set_speed(writer, F, TRUE, config.NDEBUG)
           IN  /\ writer' = r.w
               /\ last' = [op |-> "set_speed", arg |-> F, out |-> r.out,
                           pre |-> writer.m_current_speed, aborted |-> r.aborted]
        /\ UNCHANGED <<config, since_lift>>

NextSpeed == SetSpeed

SpecSpeed == InitSpeed /\ [][NextSpeed]_vars

----------------------------------------------------------------------------
(* Properties of the feedrate *)

----------------------------------------------------------------------------
(* Reconfiguration of the tool set: specification SpecReconf *)

\* the tool sets set_extruders is given once the writer is in use
ReconfSets == {{0}, {1}, {0, 1}, {0, 1, 2}}

InitReconf ==
    /\ \E flavor \in {"gcfMarlinFirmware", "gcfSailfish"} :
           config = MakeConfig(flavor, FALSE, FALSE, 0, 2000)
    /\ \E extruder_ids \in ReconfSets : writer = SetUp(config, extruder_ids)
    /\ last = NoCall
    /\ since_lift = NoLift

ReconfSetExtruders ==
    \E extruder_ids \in ReconfSets :
        /\ writer' = set_extruders(config, writer, extruder_ids)
        /\ last' = CallOnly("set_extruders", extruder_ids, << >>, Selection(writer))
        /\ UNCHANGED <<config, since_lift>>

ReconfToolchange ==
    \E filament_id \in FilamentIds :
        /\ IsConfigured(writer, filament_id)
        /\ LET r == toolchange(writer, filament_id)
           IN  /\ writer' = r.w
               /\ last' = CallOnly("toolchange", filament_id, r.out, Selection(writer))
        /\ UNCHANGED <<config, since_lift>>

ReconfInitExtruder ==
    \E filament_id \in FilamentIds :
        /\ IsConfigured(writer, filament_id)
        /\ writer' = init_extruder(writer, filament_id)
        /\ last' = CallOnly("init_extruder", filament_id, << >>, Selection(writer))
        /\ UNCHANGED <<config, since_lift>>

NextReconf ==
    \/ ReconfSetExtruders
    \/ ReconfToolchange
    \/ ReconfInitExtruder

SpecReconf == InitReconf /\ [][NextReconf]_vars

----------------------------------------------------------------------------
(* Properties of the reconfiguration *)

\* C37: whenever a tool is selected, the current filament of the current
\* extruder points to an Extruder of m_filament_extruders as it is now: into
\* storage the vector still owns, at a position within its size
C37_CurrentToolValid ==
    (writer.m_curr_extruder_id # NoExtruder /\ filament(writer) # nullptr) =>
        /\ writer.m_curr_extruder_id \notin writer.freed
        /\ filament(writer) \in 1..Len(writer.m_filament_extruders)

\* the current filament of the current extruder points to an Extruder of
\* m_filament_extruders: the calls that dereference filament() have one
Refers(w) ==
    /\ filament(w) # nullptr
    /\ w.m_curr_extruder_id \notin w.freed
    /\ filament(w) \in 1..Len(w.m_filament_extruders)

\* the calls other than toolchange, set_extruder, init_extruder and
\* set_extruders leave the selection as it is
OthersKeepSelection ==
    LET Keeps(w) == Selection(w) = Selection(writer)
    IN  /\ \A t \in Temperatures, wait \in BOOLEAN :
               /\ Keeps(set_bed_temperature(writer, t, wait).w)
               /\ Keeps(set_chamber_temperature(writer, t, wait).w)
        /\ Keeps(set_extrude_acceleration(set_acceleration(writer, 3000)).w)
        /\ Keeps(reset_last_acceleration(writer))
        /\ \A jerk \in {0, 8 * JerkPerMm} : Keeps(set_jerk_xy(writer, jerk).w)
        /\ filament(writer) = nullptr =>
               \A force \in BOOLEAN : Keeps(reset_e(writer, force).w)
        /\ Refers(writer) =>
               /\ \A force \in BOOLEAN : Keeps(reset_e(writer, force).w)
               /\ Keeps(set_travel_acceleration(
                            set_first_layer(
                                set_travel_acceleration_values(writer, <<3000, 1000>>),
                                FALSE)).w)
               /\ \A p \in Points, force_no_extrusion \in BOOLEAN :
                      /\ Keeps(travel_to_xy(writer, p, TRUE).w)
                      /\ Keeps(extrude_to_xy(writer, p, 1, TRUE, force_no_extrusion).w)
                      /\ Keeps(extrude_arc_to_xy(writer, p, <<1, 0>>, 1, TRUE, TRUE,
                                                 force_no_extrusion).w)
               /\ \A p \in Points3 :
                      /\ Keeps(travel_to_xyz(writer, p, TRUE).w)
                      /\ Keeps(extrude_to_xyz(writer, p, 1, TRUE, FALSE).w)
               /\ \A z \in Heights : Keeps(travel_to_z(writer, z, TRUE).w)
               /\ \A before_wipe \in BOOLEAN :
                      /\ Keeps(retract(writer, before_wipe).w)
                      /\ Keeps(retract_for_toolchange(writer, before_wipe).w)
               /\ Keeps(unretract(writer).w)
               /\ \A lift_type \in LiftTypes, tool_change \in BOOLEAN :
                      /\ Keeps(lazy_lift(writer, lift_type, FALSE, tool_change).w)
                      /\ Keeps(eager_lift(writer, lift_type, tool_change).w)
               /\ Keeps(unlift(writer).w)

\* C31 as stated: every call but toolchange (and set_extruder, which makes
\* one), init_extruder and set_extruders among them, leaves the active-tool
\* selection as it is
C31_SelectionFrameAsStated ==
    /\ OthersKeepSelection
    /\ \A extruder_ids \in ToolSets :
           Selection(set_extruders(config, writer, extruder_ids)) = Selection(writer)
    /\ \A filament_id \in FilamentIds :
           IsConfigured(writer, filament_id) =>
               Selection(init_extruder(writer, filament_id)) = Selection(writer)

\* C31 amended: m_curr_extruder_id and the Extruder each physical extruder
\* points to are written by toolchange (and by set_extruder through it) and
\* by init_extruder when no tool is selected yet, which selects the filament
\* it is given as toolchange does; init_extruder with a tool selected,
\* set_extruders and every other call leave them as they are
C31_SelectionFrame ==
    /\ OthersKeepSelection
    /\ \A extruder_ids \in ToolSets :
           Selection(set_extruders(config, writer, extruder_ids)) = Selection(writer)
    /\ \A filament_id \in FilamentIds :
           IsConfigured(writer, filament_id) =>
               IF writer.m_curr_extruder_id = NoExtruder
               THEN /\ Selection(init_extruder(writer, filament_id))
                         = Selection(toolchange(writer, filament_id).w)
                    /\ CurrentId(init_extruder(writer, filament_id)) = filament_id
               ELSE init_extruder(writer, filament_id) = writer

\* init_extruder was called with no tool selected and selected its filament
C31_Witness ==
    /\ last.op = "init_extruder"
    /\ last.pre[1] = NoExtruder
    /\ CurrentId(writer) = last.arg
    /\ Selection(writer) # last.pre

====
